---- MODULE Spec2Model ----
(***************************************************************************)
(* Model of the rag-chatbot pipeline: the text chunker                     *)
(* (src/rag-pipeline/chunker.py) and the retrieval validator               *)
(* (src/rag-pipeline/retrieve.py).                                         *)
(*                                                                         *)
(* A text is a sequence of tokens.  A token is the newline "\n", a run of  *)
(* '#' characters, or a word; tokens of one line are separated by single   *)
(* spaces.  str.split('\n'), '\n'.join, str.split() and ' '.join are the   *)
(* operators SplitLines, JoinWith, SplitWords and JoinWords.               *)
(***************************************************************************)
EXTENDS Integers, Sequences, FiniteSets, TLC

VARIABLES
    chunk_size,       \* TextChunker.chunk_size
    chunk_overlap,    \* TextChunker.chunk_overlap
    document,         \* the argument of chunk_document (a dict: a function on its keys)
    pc,               \* position of the running call
    lines,            \* _split_by_headings: text.split('\n')
    line_no,          \* _split_by_headings: number of lines already scanned
    heading_stack,    \* _split_by_headings: heading_stack
    current_section,  \* _split_by_headings: current_section
    sections,         \* _split_by_headings: sections
    section_no,       \* chunk_document: number of sections already chunked
    words,            \* _chunk_section: words
    start,            \* _chunk_section: start
    section_chunks,   \* _chunk_section: chunks
    chunks,           \* chunk_document: chunks
    outcome,          \* how the call ended: "none", "returned" or the error raised
    rpc,              \* position of the query run: retrieve_chunks, then validate_metadata
    search_ok,        \* whether client.search returns (TRUE) or raises (FALSE)
    hits,             \* retrieve_chunks: what client.search returns
    results,          \* retrieve_chunks: the formatted chunks
    validation_results, \* validate_metadata: the aggregate it returns
    query_outcome,    \* how the query run ended: "none", "returned" or the error raised
    quality_results,  \* validate_content_quality: the aggregate it returns
    via,              \* the retrieval that runs: "retrieve" (retrieve.py),
                      \* "vector_store" (search.py) or "rag_agent" (RAGAgent)
    embed_ok,         \* whether the embedding of the query returns or raises
    collection,       \* the points of the collection, in the order of their score
    top_k,            \* the argument top_k (limit)
    module_filter,    \* the argument module_filter
    error_cause,      \* the external error that the error raised carries
    spc,              \* position of run_validation_suite
    replies,          \* what the embedding service and the store answer to each
                      \* test query of the suite
    test_no,          \* run_validation_suite: number of test queries already run
    suite_results,    \* run_validation_suite: results
    ipc,              \* position of the ingestion: embed_chunks, then insert_chunks
    embed_batch_size, \* CohereEmbedder.batch_size
    in_chunks,        \* embed_chunks: chunks, each a dict changed in place
    batch_start,      \* embed_chunks: i
    embed_calls,      \* the calls of client.embed made so far, with their outcome
    valid_chunks,     \* embed_chunks: the list it returns
    to_insert,        \* insert_chunks: chunks
    insert_batch_size, \* insert_chunks: batch_size
    points,           \* insert_chunks: points
    upload_start,     \* insert_chunks: i
    upsert_calls,     \* the calls of client.upsert made so far, with their outcome
    stored,           \* the points the collection holds
    next_uuid,        \* the number of ids uuid4 has given out
    documents,        \* run_ingestion_pipeline: documents
    recreate_collection, \* run_ingestion_pipeline: the argument recreate_collection
    collection_exists, \* whether the store has a collection of the configured name
    store_ops,        \* the operations this run has sent to the store, with their outcome
    steps,            \* the "[Step k/5]" lines this run has logged
    ingest_outcome,   \* how the run ended: "none", "returned" or the error raised
    run_no,           \* the number of runs of the pipeline started so far
    model,            \* CohereEmbedder.model
    collection_dim,   \* the vector size the collection was created with
    agent,            \* api_server.py: the global agent
    api_state,        \* the server: "created", "serving" or "failed" (start-up raised)
    responses,        \* the responses the server has given, each with its request
    agent_calls,      \* the calls of agent.query_async made so far, with their outcome
    cpc,              \* position of crawl_all_docs
    docs_paths,       \* crawl_all_docs: docs_paths
    path_no,          \* crawl_all_docs: number of paths already crawled
    visited_urls,     \* DocusaurusCrawler.visited_urls
    pages,            \* crawl_docs_path: pages
    link_queue,       \* crawl_docs_path: the linked pages not yet extracted
    all_pages,        \* crawl_all_docs: all_pages
    fetches,          \* the GET requests sent so far, with their outcome
    global_cohere_client,    \* rag_agent._cohere_client
    global_qdrant_client,    \* rag_agent._qdrant_client
    global_collection_name,  \* rag_agent._collection_name
    agents,           \* the RAGAgent instances constructed so far
    attempts,         \* number of calls of RAGAgent.__init__ so far
    searches,         \* the Qdrant searches made so far by the agents and the tool
    tool_returns      \* what retrieve_context_tool returned so far

chunkerVars == <<chunk_size, chunk_overlap, document, pc, lines, line_no,
                 heading_stack, current_section, sections, section_no, words,
                 start, section_chunks, chunks, outcome>>
queryVars == <<rpc, search_ok, hits, results, validation_results, query_outcome,
               quality_results, via, embed_ok, collection, top_k, module_filter,
               error_cause>>
suiteVars == <<spc, replies, test_no, suite_results>>
ingestVars == <<ipc, embed_batch_size, in_chunks, batch_start, embed_calls, valid_chunks,
                to_insert, insert_batch_size, points, upload_start, upsert_calls,
                stored, next_uuid, documents, recreate_collection, collection_exists,
                store_ops, steps, ingest_outcome, run_no, model, collection_dim>>
pipelineVars == <<documents, recreate_collection, collection_exists, store_ops, steps,
                  ingest_outcome, run_no, model, collection_dim>>
apiVars == <<agent, api_state, responses, agent_calls>>
crawlVars == <<cpc, docs_paths, path_no, visited_urls, pages, link_queue, all_pages,
               fetches>>
toolVars == <<global_cohere_client, global_qdrant_client, global_collection_name,
              agents, attempts, searches, tool_returns>>
appVars == <<apiVars, crawlVars, toolVars>>
retrieveVars == <<queryVars, suiteVars, ingestVars, appVars>>
vars == <<chunk_size, chunk_overlap, document, pc, lines, line_no,
          heading_stack, current_section, sections, section_no, words,
          start, section_chunks, chunks, outcome, rpc, search_ok, hits,
          results, validation_results, query_outcome, quality_results, via,
          embed_ok, collection, top_k, module_filter, error_cause, spc, replies,
          test_no, suite_results, ipc, embed_batch_size, in_chunks, batch_start,
          embed_calls, valid_chunks, to_insert, insert_batch_size, points,
          upload_start, upsert_calls, stored, next_uuid, documents,
          recreate_collection, collection_exists, store_ops, steps, ingest_outcome,
          run_no, model, collection_dim, agent, api_state, responses, agent_calls,
          cpc, docs_paths, path_no, visited_urls, pages, link_queue, all_pages,
          fetches, global_cohere_client, global_qdrant_client,
          global_collection_name, agents, attempts, searches, tool_returns>>

----------------------------------------------------------------------------
(* Bounds of the model *)

MaxLines == 3
MaxChunkSize == 4
MaxOverlap == 2
MaxHits == 2

\* Lines of a page: empty, words, headings of three levels, a lone '#'
ContentLines ==
    { <<>>, <<"a">>, <<"b", "c">>, <<"#", "a">>, <<"##", "b">>, <<"###", "c">>,
      <<"#">> }

\* Longest line of ContentLines, in tokens
MaxLineTokens ==
    CHOOSE n \in { Len(l) : l \in ContentLines } : \A l \in ContentLines : Len(l) <= n

\* No terminating windowing loop emits more windows than a section has words;
\* this cap only cuts the loops that never end.
MaxWindows == MaxLines * MaxLineTokens + 1

----------------------------------------------------------------------------
(* Python values *)

\* Python's None
None == [t |-> "none"]

PyStr(s) == [t |-> "str", v |-> s]

PyInt(n) == [t |-> "int", v |-> n]

Min(a, b) == IF a <= b THEN a ELSE b

Max(a, b) == IF a >= b THEN a ELSE b

\* a float, held in tenths: PyFloat(5) is 0.5
PyFloat(n) == [t |-> "float", v |-> n]

IsNumber(x) == x.t \in {"int", "float"}

\* a number in tenths, whatever its type
Tenths(x) == IF x.t = "int" THEN 10 * x.v ELSE x.v

\* bool(x)
Truthy(x) ==
    CASE x.t = "none" -> FALSE
      [] x.t = "str" -> x.v # <<>>
      [] x.t = "int" -> x.v # 0
      [] x.t = "float" -> x.v # 0

\* string.startswith(prefix), strings as sequences of characters
StartsWith(string, prefix) ==
    /\ Len(string) >= Len(prefix)
    /\ SubSeq(string, 1, Len(prefix)) = prefix

\* dict.get(key) with its default
PyGet(d, key, default) == IF key \in DOMAIN d THEN d[key] ELSE default

\* seq[lo:hi] with Python's treatment of negative and out-of-range indices
PySlice(s, lo, hi) ==
    LET n == Len(s)
        norm(i) == IF i < 0 THEN Max(n + i, 0) ELSE Min(i, n)
    IN  SubSeq(s, norm(lo) + 1, norm(hi))

----------------------------------------------------------------------------
(* Strings as token sequences *)

NL == "\n"

RECURSIVE JoinWith(_, _)
\* sep.join(parts): the parts with one sep token between neighbours
JoinWith(parts, sep) ==
    IF parts = <<>> THEN <<>>
    ELSE IF Len(parts) = 1 THEN parts[1]
    ELSE parts[1] \o <<sep>> \o JoinWith(Tail(parts), sep)

RECURSIVE SplitLines(_)
\* text.split('\n'): always at least one line; '' gives ['']
SplitLines(text) ==
    IF \A i \in 1..Len(text) : text[i] # NL THEN <<text>>
    ELSE LET k == CHOOSE i \in 1..Len(text) :
                      text[i] = NL /\ \A j \in 1..(i-1) : text[j] # NL
         IN  <<SubSeq(text, 1, k - 1)>> \o SplitLines(SubSeq(text, k + 1, Len(text)))

\* text.split(): the whitespace-delimited words
SplitWords(text) == SelectSeq(text, LAMBDA tok : tok # NL)

\* ' '.join(words)
JoinWords(ws) == ws

\* len(heading_match.group(1)) for the runs of '#' the pattern accepts: #{1,6}
HeadingLevel(tok) ==
    CASE tok = "#" -> 1
      [] tok = "##" -> 2
      [] tok = "###" -> 3
      [] tok = "####" -> 4
      [] tok = "#####" -> 5
      [] tok = "######" -> 6
      [] OTHER -> 0

\* heading_pattern.match(line): ^(#{1,6})\s+(.+)$
IsHeading(line) == Len(line) >= 2 /\ HeadingLevel(line[1]) >= 1

\* heading_match.group(2).strip()
HeadingText(line) == Tail(line)

----------------------------------------------------------------------------
(* TextChunker *)

\* 'module' read with document['module'] like the other keys
RequiredFields_WithModule == {"content", "url", "title", "module"}

\* chunk_document: the keys read with document[...]; 'module' is read with .get
RequiredFields == {"content", "url", "title"}

\* only the headings of the same level are removed
KeptHeadings_SameLevelOnly(stack, level) == SelectSeq(stack, LAMBDA h : h.level # level)

\* _split_by_headings: heading_stack = [h for h in heading_stack if h['level'] < level]
KeptHeadings(stack, level) == SelectSeq(stack, LAMBDA h : h.level < level)

\* _split_by_headings: [h['text'] for h in heading_stack]
StackTexts(stack) == [i \in 1..Len(stack) |-> stack[i].text]

\* the section is appended without looking at its text
SaveSection_Always(secs, cur) ==
    Append(secs, [headings |-> cur.headings, text |-> JoinWith(cur.text, NL)])

\* _split_by_headings: if current_section['text']: join it and append the section
SaveSection(secs, cur) ==
    IF cur.text # <<>>
    THEN Append(secs, [headings |-> cur.headings, text |-> JoinWith(cur.text, NL)])
    ELSE secs

\* the heading line left out of the text of its section
NewSection_WithoutHeadingLine(stack, line) ==
    [headings |-> StackTexts(stack), text |-> <<>>]

\* _split_by_headings: the section a heading starts, with the heading line in its text
NewSection(stack, line) == [headings |-> StackTexts(stack), text |-> <<line>>]

\* _chunk_section: ' > '.join(headings) if headings else title
HeadingHierarchy(headings, title) ==
    IF headings # <<>> THEN JoinWith(headings, ">") ELSE title

\* _chunk_section: one chunk dictionary
MakeChunk(text, headings, doc) ==
    [text |-> text,
     url |-> doc["url"],
     title |-> doc["title"],
     module |-> PyGet(doc, "module", None),
     heading_hierarchy |-> HeadingHierarchy(headings, doc["title"])]

\* _chunk_section: if len(words) <= self.chunk_size (the section is one chunk)
FitsOneChunk(ws, size) == Len(ws) <= size

\* _chunk_section: end = min(start + self.chunk_size, len(words))
WindowEnd(from, size, n) == Min(from + size, n)

\* the next window starts where this one ends
NextStart_NoOverlap(from, size, overlap) == from + size

\* the start moves forward by one word at least
NextStart_AtLeastOne(from, size, overlap) == from + Max(size - overlap, 1)

\* _chunk_section: start += self.chunk_size - self.chunk_overlap
NextStart(from, size, overlap) == from + size - overlap

\* _chunk_section: if start >= len(words): break
LoopBreaks(from, n) == from >= n

\* _url_to_id: the first 8 hex digits of md5(url), kept symbolic
UrlToId(url) == [md5_8 |-> url]

\* total_chunks taken while the list is still being numbered
AddIndices_RunningTotal(cs, url) ==
    [i \in 1..Len(cs) |->
        [text |-> cs[i].text,
         url |-> cs[i].url,
         title |-> cs[i].title,
         module |-> cs[i].module,
         heading_hierarchy |-> cs[i].heading_hierarchy,
         chunk_index |-> i - 1,
         total_chunks |-> i,
         chunk_id |-> <<UrlToId(url), i - 1>>]]

\* chunk_document: chunk_index, total_chunks and chunk_id for every chunk
AddIndices(cs, url) ==
    [i \in 1..Len(cs) |->
        [text |-> cs[i].text,
         url |-> cs[i].url,
         title |-> cs[i].title,
         module |-> cs[i].module,
         heading_hierarchy |-> cs[i].heading_hierarchy,
         chunk_index |-> i - 1,
         total_chunks |-> Len(cs),
         chunk_id |-> <<UrlToId(url), i - 1>>]]

\* chunk_document up to the call of _split_by_headings, and that function's set-up
ChunkDocument ==
    /\ pc = "constructed"
    /\ IF RequiredFields \subseteq DOMAIN document
       THEN /\ lines' = SplitLines(document["content"])
            /\ pc' = "split"
            /\ outcome' = outcome
       ELSE /\ lines' = lines
            /\ pc' = "raised"
            /\ outcome' = "KeyError"
    /\ UNCHANGED <<chunk_size, chunk_overlap, document, line_no, heading_stack,
                   current_section, sections, section_no, words, start,
                   section_chunks, chunks>>
    /\ UNCHANGED retrieveVars

\* _split_by_headings: one pass of the loop over a heading line
SplitHeadingLine ==
    /\ pc = "split"
    /\ line_no < Len(lines)
    /\ IsHeading(lines[line_no + 1])
    /\ LET line == lines[line_no + 1]
           level == HeadingLevel(line[1])
           stack == Append(KeptHeadings(heading_stack, level),
                           [level |-> level, text |-> HeadingText(line)])
       IN  /\ sections' = SaveSection(sections, current_section)
           /\ heading_stack' = stack
           /\ current_section' = NewSection(stack, line)
    /\ line_no' = line_no + 1
    /\ UNCHANGED <<chunk_size, chunk_overlap, document, pc, lines, section_no,
                   words, start, section_chunks, chunks, outcome>>
    /\ UNCHANGED retrieveVars

\* _split_by_headings: one pass of the loop over any other line
SplitTextLine ==
    /\ pc = "split"
    /\ line_no < Len(lines)
    /\ ~IsHeading(lines[line_no + 1])
    /\ current_section' =
          [current_section EXCEPT !.text = Append(@, lines[line_no + 1])]
    /\ line_no' = line_no + 1
    /\ UNCHANGED <<chunk_size, chunk_overlap, document, pc, lines, heading_stack,
                   sections, section_no, words, start, section_chunks, chunks,
                   outcome>>
    /\ UNCHANGED retrieveVars

\* _split_by_headings: after the loop, the final section and the return
SplitReturn ==
    /\ pc = "split"
    /\ line_no = Len(lines)
    /\ sections' = SaveSection(sections, current_section)
    /\ pc' = "chunk"
    /\ UNCHANGED <<chunk_size, chunk_overlap, document, lines, line_no,
                   heading_stack, current_section, section_no, words, start,
                   section_chunks, chunks, outcome>>
    /\ UNCHANGED retrieveVars

\* chunk_document's loop calls _chunk_section on a section that fits one chunk
ChunkSectionWhole ==
    /\ pc = "chunk"
    /\ section_no < Len(sections)
    /\ LET sec == sections[section_no + 1]
           ws == SplitWords(sec.text)
       IN  /\ FitsOneChunk(ws, chunk_size)
           /\ words' = ws
           /\ section_chunks' = <<MakeChunk(sec.text, sec.headings, document)>>
           /\ chunks' = chunks \o section_chunks'
    /\ section_no' = section_no + 1
    /\ UNCHANGED <<chunk_size, chunk_overlap, document, pc, lines, line_no,
                   heading_stack, current_section, sections, start, outcome>>
    /\ UNCHANGED retrieveVars

\* chunk_document's loop calls _chunk_section on a longer section: the loop set-up
ChunkSectionWindowed ==
    /\ pc = "chunk"
    /\ section_no < Len(sections)
    /\ LET ws == SplitWords(sections[section_no + 1].text)
       IN  /\ ~FitsOneChunk(ws, chunk_size)
           /\ words' = ws
    /\ section_chunks' = <<>>
    /\ start' = 0
    /\ pc' = "window"
    /\ UNCHANGED <<chunk_size, chunk_overlap, document, lines, line_no,
                   heading_stack, current_section, sections, section_no, chunks,
                   outcome>>
    /\ UNCHANGED retrieveVars

\* _chunk_section: one pass of `while start < len(words)`, and the return when
\* the loop ends
Window ==
    /\ pc = "window"
    /\ start < Len(words)
    /\ Len(section_chunks) < MaxWindows
    /\ LET end == WindowEnd(start, chunk_size, Len(words))
           chunk_text == JoinWords(PySlice(words, start, end))
           next == NextStart(start, chunk_size, chunk_overlap)
       IN  /\ section_chunks' =
                  Append(section_chunks,
                         MakeChunk(chunk_text, sections[section_no + 1].headings,
                                   document))
           /\ start' = next
           /\ IF LoopBreaks(next, Len(words))
              THEN /\ chunks' = chunks \o section_chunks'
                   /\ section_no' = section_no + 1
                   /\ pc' = "chunk"
              ELSE /\ UNCHANGED <<chunks, section_no, pc>>
    /\ UNCHANGED <<chunk_size, chunk_overlap, document, lines, line_no,
                   heading_stack, current_section, sections, words, outcome>>
    /\ UNCHANGED retrieveVars

\* chunk_document: after the loop over the sections, the indices and the return
ChunkDocumentReturn ==
    /\ pc = "chunk"
    /\ section_no = Len(sections)
    /\ chunks' = AddIndices(chunks, document["url"])
    /\ outcome' = "returned"
    /\ pc' = "done"
    /\ UNCHANGED <<chunk_size, chunk_overlap, document, lines, line_no,
                   heading_stack, current_section, sections, section_no, words,
                   start, section_chunks>>
    /\ UNCHANGED retrieveVars

ChunkerNext ==
    \/ ChunkDocument
    \/ SplitHeadingLine
    \/ SplitTextLine
    \/ SplitReturn
    \/ ChunkSectionWhole
    \/ ChunkSectionWindowed
    \/ Window
    \/ ChunkDocumentReturn

----------------------------------------------------------------------------
(* The documents and configurations the chunker is run on *)

LineSeqs(n) == UNION { [1..k -> ContentLines] : k \in 1..n }

Contents == { JoinWith(ls, NL) : ls \in LineSeqs(MaxLines) }

ShortContents == { JoinWith(ls, NL) : ls \in LineSeqs(1) }

AllFields == {"content", "url", "title", "module"}

FieldValue(key, content) ==
    CASE key = "content" -> content
      [] key = "url" -> "https://x/a"
      [] key = "title" -> <<"A">>
      [] key = "module" -> PyStr("module-01")

MakeDocument(keys, content) == [k \in keys |-> FieldValue(k, content)]

Documents ==
    { MakeDocument(AllFields, c) : c \in Contents }
    \cup { MakeDocument(ks, c) : ks \in SUBSET AllFields, c \in ShortContents }

\* TextChunker.__init__ stores what it is given
ChunkerInit(sizes, overlaps, docs) ==
    /\ chunk_size \in sizes
    /\ chunk_overlap \in overlaps
    /\ document \in docs
    /\ pc = "constructed"
    /\ lines = <<>>
    /\ line_no = 0
    /\ heading_stack = <<>>
    /\ current_section = [headings |-> <<>>, text |-> <<>>]
    /\ sections = <<>>
    /\ section_no = 0
    /\ words = <<>>
    /\ start = 0
    /\ section_chunks = <<>>
    /\ chunks = <<>>
    /\ outcome = "none"

\* validate_metadata: validation_results before the loop
NoValidation(n) == [total_chunks |-> n, passed |-> 0, failed |-> 0, issues |-> <<>>]

\* run_validation_suite: results before the loop
NoSuiteResults(n) == [total_queries |-> n, passed |-> 0, failed |-> 0, query_results |-> <<>>]

SuiteIdle ==
    /\ spc = "idle"
    /\ replies = <<>>
    /\ test_no = 0
    /\ suite_results = NoSuiteResults(0)

ApiIdle ==
    /\ agent = None
    /\ api_state = "created"
    /\ responses = <<>>
    /\ agent_calls = <<>>

CrawlIdle ==
    /\ cpc = "idle"
    /\ docs_paths = <<>>
    /\ path_no = 0
    /\ visited_urls = {}
    /\ pages = <<>>
    /\ link_queue = {}
    /\ all_pages = <<>>
    /\ fetches = <<>>

ToolIdle ==
    /\ global_cohere_client = None
    /\ global_qdrant_client = None
    /\ global_collection_name = None
    /\ agents = <<>>
    /\ attempts = 0
    /\ searches = <<>>
    /\ tool_returns = <<>>

AppIdle ==
    /\ ApiIdle
    /\ CrawlIdle
    /\ ToolIdle

\* CohereEmbedder.__init__: the default of model
DefaultModel == <<"e", "m", "b", "e", "d", "-", "e", "n", "g", "l", "i", "s", "h", "-",
    "v", "3", ".", "0">>

LightModel == <<"e", "m", "b", "e", "d", "-", "e", "n", "g", "l", "i", "s", "h", "-",
    "l", "i", "g", "h", "t", "-", "v", "3", ".", "0">>

OlderModel == <<"e", "m", "b", "e", "d", "-", "m", "u", "l", "t", "i", "l", "i", "n",
    "g", "u", "a", "l", "-", "v", "2", ".", "0">>

PipelineIdle ==
    /\ model = DefaultModel
    /\ collection_dim = 0
    /\ documents = <<>>
    /\ recreate_collection = FALSE
    /\ collection_exists = FALSE
    /\ store_ops = <<>>
    /\ steps = <<>>
    /\ ingest_outcome = "none"
    /\ run_no = 0

IngestIdle ==
    /\ PipelineIdle
    /\ ipc = "idle"
    /\ embed_batch_size = 1
    /\ in_chunks = <<>>
    /\ batch_start = 0
    /\ embed_calls = <<>>
    /\ valid_chunks = <<>>
    /\ to_insert = <<>>
    /\ insert_batch_size = 1
    /\ points = <<>>
    /\ upload_start = 0
    /\ upsert_calls = <<>>
    /\ stored = <<>>
    /\ next_uuid = 0

\* validate_content_quality: quality_results before the loop
NoQuality(n) == [total_chunks |-> n, clean |-> 0, has_issues |-> 0, issues |-> <<>>]

QueryIdle ==
    /\ rpc = "idle"
    /\ search_ok = TRUE
    /\ hits = <<>>
    /\ results = <<>>
    /\ validation_results = NoValidation(0)
    /\ query_outcome = "none"
    /\ quality_results = NoQuality(0)
    /\ via = "retrieve"
    /\ embed_ok = TRUE
    /\ collection = <<>>
    /\ top_k = 0
    /\ module_filter = None
    /\ error_cause = "none"

RetrieveIdle ==
    /\ QueryIdle
    /\ SuiteIdle
    /\ IngestIdle
    /\ AppIdle

Init ==
    /\ ChunkerInit(1..MaxChunkSize, 0..MaxOverlap, Documents)
    /\ RetrieveIdle

Next == ChunkerNext

Spec == Init /\ [][Next]_vars

----------------------------------------------------------------------------
(* The chunker on long pages, under its default configuration *)

\* TextChunker.__init__: chunk_size: int = 800
DefaultChunkSize == 800

\* TextChunker.__init__: chunk_overlap: int = 100
DefaultChunkOverlap == 100

MaxHundreds == 20

\* "# Intro\n" followed by n times "word "
IntroPage(n) == <<"#", "Intro", NL>> \o [i \in 1..n |-> "word"]

LongDocuments ==
    { MakeDocument(AllFields, IntroPage(100 * k)) : k \in 0..MaxHundreds }

InitExample ==
    /\ ChunkerInit({DefaultChunkSize}, {DefaultChunkOverlap}, LongDocuments)
    /\ RetrieveIdle

SpecExample == InitExample /\ [][ChunkerNext]_vars

(* The windowing loop of _chunk_section on sections of distinct words *)

MaxWords == 4

\* words that differ from one another
WordList == <<"w1", "w2", "w3", "w4", "w5", "w6", "w7", "w8">>

\* a page of one section: a heading line and a line of n words, no two words
\* of the section the same
SectionPage(n) ==
    MakeDocument(AllFields, <<"#", "h", NL>> \o SubSeq(WordList, 1, n))

\* the number of words of the text line: the section has two words more, and
\* fewer words than the cap on the windows
SectionPages ==
    { SectionPage(n) : n \in 0..Min(Min(MaxWords, Len(WordList)), MaxWindows - 3) }

InitWindow ==
    /\ ChunkerInit(1..MaxChunkSize, 0..MaxOverlap, SectionPages)
    /\ RetrieveIdle

\* chunk_document runs to its end: a call that can take a step takes it
SpecWindow == InitWindow /\ [][ChunkerNext]_vars /\ WF_vars(ChunkerNext)

----------------------------------------------------------------------------
(* retrieve_chunks and validate_metadata *)

\* retrieve_chunks: the chunk built from one search result
FormatResult(hit) ==
    [score |-> hit.score,
     text |-> PyGet(hit.payload, "text", PyStr(<<>>)),
     url |-> PyGet(hit.payload, "url", PyStr(<<>>)),
     title |-> PyGet(hit.payload, "title", PyStr(<<>>)),
     module |-> PyGet(hit.payload, "module", None),
     heading_hierarchy |-> PyGet(hit.payload, "heading_hierarchy", PyStr(<<>>)),
     chunk_index |-> PyGet(hit.payload, "chunk_index", None),
     total_chunks |-> PyGet(hit.payload, "total_chunks", None),
     chunk_id |-> PyGet(hit.payload, "chunk_id", PyStr(<<>>))]

\* validate_metadata: required_fields
RequiredMetadata == <<"text", "url", "title", "chunk_id">>

\* validate_metadata: if not chunk.get(field), for the required fields in order
MissingIssues(chunk) ==
    LET missing == SelectSeq(RequiredMetadata,
                             LAMBDA f : ~Truthy(PyGet(chunk, f, None)))
    IN  [i \in 1..Len(missing) |-> [issue |-> "Missing or empty", field |-> missing[i]]]

Http == <<"h", "t", "t", "p", ":", "/", "/">>

Https == <<"h", "t", "t", "p", "s", ":", "/", "/">>

\* only the https:// scheme is accepted
HasUrlScheme_HttpsOnly(url) == StartsWith(url, Https)

\* validate_metadata: url.startswith('http://') or url.startswith('https://')
HasUrlScheme(url) == StartsWith(url, Http) \/ StartsWith(url, Https)

\* validate_metadata: the check of the URL format
UrlIssues(chunk) ==
    LET url == PyGet(chunk, "url", PyStr(<<>>))
    IN  IF Truthy(url) /\ ~HasUrlScheme(url.v)
        THEN <<[issue |-> "Invalid URL format", field |-> "url"]>>
        ELSE <<>>

\* chunk_index may equal total_chunks
IndexInRange_Inclusive(chunk_index, total) == 0 <= chunk_index /\ chunk_index <= total

\* validate_metadata: 0 <= chunk_index < total_chunks
IndexInRange(chunk_index, total) == 0 <= chunk_index /\ chunk_index < total

\* validate_metadata: the check of the chunk index, made when both are not None
IndexIssues(chunk) ==
    LET chunk_index == PyGet(chunk, "chunk_index", None)
        total == PyGet(chunk, "total_chunks", None)
    IN  IF chunk_index # None /\ total # None /\ ~IndexInRange(chunk_index.v, total.v)
        THEN <<[issue |-> "Invalid chunk index", field |-> "chunk_index"]>>
        ELSE <<>>

\* the score 1.0 is out of range
ScoreInRange_Below1(tenths) == 0 <= tenths /\ tenths < 10

\* validate_metadata: 0.0 <= score <= 1.0, the score in tenths
ScoreInRange(tenths) == 0 <= tenths /\ tenths <= 10

\* validate_metadata: the check of the score, 0 when the chunk has none
ScoreIssues(chunk) ==
    LET score == PyGet(chunk, "score", PyInt(0))
    IN  IF ~ScoreInRange(Tenths(score))
        THEN <<[issue |-> "Score out of range", field |-> "score"]>>
        ELSE <<>>

\* validate_metadata: chunk_issues of one chunk
MetadataIssues(chunk) ==
    MissingIssues(chunk) \o UrlIssues(chunk) \o IndexIssues(chunk) \o ScoreIssues(chunk)

\* validate_metadata: the error one chunk makes the checks raise, "none" if none:
\* startswith on a value that is no string, an order comparison with a value
\* that is no number
ItemError(chunk) ==
    LET url == PyGet(chunk, "url", PyStr(<<>>))
        chunk_index == PyGet(chunk, "chunk_index", None)
        total == PyGet(chunk, "total_chunks", None)
        score == PyGet(chunk, "score", PyInt(0))
    IN  CASE Truthy(url) /\ url.t # "str" -> "AttributeError"
          [] /\ ~(Truthy(url) /\ url.t # "str")
             /\ chunk_index # None
             /\ total # None
             /\ \/ ~IsNumber(chunk_index)
                \/ (0 <= Tenths(chunk_index) /\ ~IsNumber(total)) -> "TypeError"
          [] OTHER -> IF IsNumber(score) THEN "none" ELSE "TypeError"

\* validate_metadata: "Record results" for the chunk at position i
RecordItem(vr, i, chunk, chunk_issues) ==
    IF chunk_issues # <<>>
    THEN [vr EXCEPT !.failed = @ + 1,
                    !.issues = Append(@, [chunk_index |-> i,
                                          chunk_id |-> PyGet(chunk, "chunk_id",
                                                             PyStr(<<"unknown">>)),
                                          issues |-> chunk_issues])]
    ELSE [vr EXCEPT !.passed = @ + 1]

RECURSIVE ValidateLoop(_, _, _)
\* validate_metadata: the loop over enumerate(chunks), from position i on
ValidateLoop(cs, i, vr) ==
    IF i >= Len(cs) THEN vr
    ELSE ValidateLoop(cs, i + 1, RecordItem(vr, i, cs[i + 1], MetadataIssues(cs[i + 1])))

\* the errors the calls of the embedding service and of the store raise
EmbedError == "CohereError"

SearchError == "QdrantError"

\* the filter is never built
QueryFilter_Never(mf) == None

\* retrieve_chunks: query_filter, built only if module_filter
QueryFilter(mf) == IF Truthy(mf) THEN [key |-> "module", value |-> mf] ELSE None

\* client.search: the points that match the filter, best score first, at most
\* limit of them
QdrantSearch(ranked, query_filter, limit) ==
    LET matching ==
            IF query_filter = None THEN ranked
            ELSE SelectSeq(ranked,
                           LAMBDA p : /\ query_filter.key \in DOMAIN p.payload
                                      /\ p.payload[query_filter.key] = query_filter.value)
    IN  PySlice(matching, 0, limit)

\* the failed search gives an empty list of chunks
SearchFailure_EmptyList(cause) ==
    [rpc |-> "retrieved", outcome |-> "none", cause |-> "none"]

\* retrieve_chunks: except Exception as e: raise Exception(f"Failed to
\* retrieve chunks: {e}")
SearchFailure(cause) ==
    [rpc |-> "raised", outcome |-> "Exception: Failed to retrieve chunks", cause |-> cause]

\* generate_query_embedding: the embedding, or the error raised
GenerateQueryEmbedding ==
    /\ rpc = "embed"
    /\ via = "retrieve"
    /\ IF embed_ok
       THEN /\ rpc' = "query"
            /\ UNCHANGED <<query_outcome, error_cause>>
       ELSE /\ rpc' = "raised"
            /\ query_outcome' = "Exception: Failed to generate query embedding"
            /\ error_cause' = EmbedError
    /\ UNCHANGED <<search_ok, hits, results, validation_results, quality_results, via,
                   embed_ok, collection, top_k, module_filter>>
    /\ UNCHANGED <<chunkerVars, suiteVars, ingestVars, appVars>>

\* retrieve_chunks: the search, and the results formatted or the error raised
RetrieveChunks ==
    /\ rpc = "query"
    /\ via = "retrieve"
    /\ IF search_ok
       THEN /\ hits' = QdrantSearch(collection, QueryFilter(module_filter), top_k)
            /\ results' = [i \in 1..Len(hits') |-> FormatResult(hits'[i])]
            /\ rpc' = "retrieved"
            /\ UNCHANGED <<query_outcome, error_cause>>
       ELSE /\ UNCHANGED <<hits, results>>
            /\ rpc' = SearchFailure(SearchError).rpc
            /\ query_outcome' = SearchFailure(SearchError).outcome
            /\ error_cause' = SearchFailure(SearchError).cause
    /\ UNCHANGED <<search_ok, validation_results, quality_results, via, embed_ok,
                   collection, top_k, module_filter>>
    /\ UNCHANGED <<chunkerVars, suiteVars, ingestVars, appVars>>

\* validate_metadata on the retrieved chunks
ValidateMetadata ==
    /\ rpc = "retrieved"
    /\ IF \A i \in 1..Len(results) : ItemError(results[i]) = "none"
       THEN /\ validation_results' = ValidateLoop(results, 0, NoValidation(Len(results)))
            /\ rpc' = "validated"
            /\ query_outcome' = "returned"
       ELSE /\ validation_results' = validation_results
            /\ rpc' = "raised"
            /\ query_outcome' =
                  ItemError(results[CHOOSE i \in 1..Len(results) :
                                       /\ ItemError(results[i]) # "none"
                                       /\ \A j \in 1..(i - 1) :
                                             ItemError(results[j]) = "none"])
    /\ UNCHANGED <<search_ok, hits, results, quality_results, via, embed_ok,
                   collection, top_k, module_filter, error_cause>>
    /\ UNCHANGED <<chunkerVars, suiteVars, ingestVars, appVars>>

(* validate_content_quality *)

\* the characters '»' and '«'
Raquo == "raquo"

Laquo == "laquo"

\* pattern in text, strings as sequences of characters
Contains(text, pattern) ==
    \E i \in 1..(Len(text) - Len(pattern) + 1) :
        \A j \in 1..Len(pattern) : text[i + j - 1] = pattern[j]

\* validate_content_quality: html_patterns
html_patterns ==
    <<<<"<">>,
      <<">">>,
      <<"&", "l", "t", ";">>,
      <<"&", "g", "t", ";">>,
      <<"c", "l", "a", "s", "s", "=">>,
      <<"i", "d", "=">>,
      <<"h", "r", "e", "f", "=">>,
      <<"s", "r", "c", "=">>>>

\* validate_content_quality: ui_patterns
ui_patterns ==
    <<<<"N", "e", "x", "t", " ", Raquo>>,
      <<Laquo, " ", "P", "r", "e", "v", "i", "o", "u", "s">>,
      <<"E", "d", "i", "t", " ", "t", "h", "i", "s", " ", "p", "a", "g", "e">>,
      <<"T", "a", "b", "l", "e", " ", "o", "f", " ", "C", "o", "n", "t", "e", "n", "t", "s">>,
      <<"S", "k", "i", "p", " ", "t", "o", " ", "c", "o", "n", "t", "e", "n", "t">>>>

\* the first pattern of the list that the text contains, as a list of at most
\* one issue: the loop over the patterns breaks at the first one found
FirstPatternIssue(patterns, text, issue) ==
    LET found == { k \in 1..Len(patterns) : Contains(text, patterns[k]) }
    IN  IF found = {} THEN <<>>
        ELSE <<[issue |-> issue,
                pattern |-> patterns[CHOOSE k \in found : \A m \in found : k <= m]]>>

\* str.isspace for one character
IsSpace(c) == c \in {" ", "\n", "\t", "\r"}

\* text.strip()
Strip(text) ==
    LET black == { i \in 1..Len(text) : ~IsSpace(text[i]) }
    IN  IF black = {} THEN <<>>
        ELSE SubSeq(text, CHOOSE i \in black : \A j \in black : i <= j,
                          CHOOSE i \in black : \A j \in black : i >= j)

\* two spaces do not count as excessive whitespace
ExcessiveWhitespace_TwoSpaces(text) ==
    Contains(text, <<" ", " ">>) \/ Contains(text, <<"\n", "\n", "\n">>)

\* validate_content_quality: '   ' in text or '\n\n\n' in text
ExcessiveWhitespace(text) ==
    Contains(text, <<" ", " ", " ">>) \/ Contains(text, <<"\n", "\n", "\n">>)

\* validate_content_quality: text[:100] is the preview of a longer text
PreviewLength == 100

\* validate_content_quality: text_preview
TextPreview(text) ==
    IF Len(text) > PreviewLength
    THEN PySlice(text, 0, PreviewLength) \o <<".", ".", ".">>
    ELSE text

\* validate_content_quality: chunk_issues of one chunk whose text is a string
QualityIssues(chunk) ==
    LET text == PyGet(chunk, "text", PyStr(<<>>)).v
    IN  FirstPatternIssue(html_patterns, text, "HTML artifact found")
        \o FirstPatternIssue(ui_patterns, text, "UI text found")
        \o (IF ExcessiveWhitespace(text)
             THEN <<[issue |-> "Excessive whitespace detected", pattern |-> <<>>]>>
             ELSE <<>>)
        \o (IF Strip(text) = <<>>
             THEN <<[issue |-> "Empty or whitespace-only text", pattern |-> <<>>]>>
             ELSE <<>>)

\* validate_content_quality: the error one chunk makes the checks raise, "none"
\* if none: pattern in text on a text that is no string
QualityError(chunk) ==
    IF PyGet(chunk, "text", PyStr(<<>>)).t = "str" THEN "none" ELSE "TypeError"

\* the chunk is counted in has_issues but gets no entry in issues
RecordQuality_NoEntry(qr, i, chunk, chunk_issues) ==
    IF chunk_issues # <<>>
    THEN [qr EXCEPT !.has_issues = @ + 1]
    ELSE [qr EXCEPT !.clean = @ + 1]

\* validate_content_quality: the record of the chunk at position i
RecordQuality(qr, i, chunk, chunk_issues) ==
    IF chunk_issues # <<>>
    THEN [qr EXCEPT !.has_issues = @ + 1,
                    !.issues = Append(@, [chunk_index |-> i,
                                          chunk_id |-> PyGet(chunk, "chunk_id",
                                                             PyStr(<<"unknown">>)),
                                          issues |-> chunk_issues,
                                          text_preview |->
                                              TextPreview(PyGet(chunk, "text",
                                                                PyStr(<<>>)).v)])]
    ELSE [qr EXCEPT !.clean = @ + 1]

RECURSIVE QualityLoop(_, _, _)
\* validate_content_quality: the loop over enumerate(chunks), from position i on
QualityLoop(cs, i, qr) ==
    IF i >= Len(cs) THEN qr
    ELSE QualityLoop(cs, i + 1, RecordQuality(qr, i, cs[i + 1], QualityIssues(cs[i + 1])))

\* validate_content_quality on the retrieved chunks, after validate_metadata
ValidateContentQuality ==
    /\ rpc = "validated"
    /\ IF \A i \in 1..Len(results) : QualityError(results[i]) = "none"
       THEN /\ quality_results' = QualityLoop(results, 0, NoQuality(Len(results)))
            /\ rpc' = "checked"
            /\ query_outcome' = "returned"
       ELSE /\ quality_results' = quality_results
            /\ rpc' = "raised"
            /\ query_outcome' = "TypeError"
    /\ UNCHANGED <<search_ok, hits, results, validation_results, via, embed_ok,
                   collection, top_k, module_filter, error_cause>>
    /\ UNCHANGED <<chunkerVars, suiteVars, ingestVars, appVars>>

RetrieveNext ==
    \/ RetrieveChunks
    \/ ValidateMetadata
    \/ ValidateContentQuality

(* The search results the query run is given *)

Chars(scheme) == scheme \o <<"x">>

PayloadValues(key) ==
    CASE key = "text" -> { PyStr(<<>>), PyStr(<<"t">>) }
      [] key = "url" -> { PyStr(<<>>), PyStr(Chars(Http)), PyStr(Chars(Https)),
                          PyStr(Chars(<<"f", "t", "p", ":", "/", "/">>)) }
      [] key = "title" -> { PyStr(<<>>), PyStr(<<"T">>) }
      [] key = "chunk_id" -> { PyStr(<<>>), PyStr(<<"i">>) }
      [] key = "chunk_index" -> { PyInt(-1), PyInt(0), PyInt(2), PyInt(5) }
      [] key = "total_chunks" -> { PyInt(0), PyInt(3) }

PayloadKeys == {"text", "url", "title", "chunk_id", "chunk_index", "total_chunks"}

\* marks a key the payload does not have
Absent == [t |-> "absent"]

OrAbsent(key) == PayloadValues(key) \cup {Absent}

\* every payload: any of the keys may be missing
Payloads ==
    { [k \in { k \in PayloadKeys : f[k] # Absent } |-> f[k]] :
        f \in [text : OrAbsent("text"), url : OrAbsent("url"),
               title : OrAbsent("title"), chunk_id : OrAbsent("chunk_id"),
               chunk_index : OrAbsent("chunk_index"),
               total_chunks : OrAbsent("total_chunks")] }

Scores == { PyFloat(-1), PyFloat(0), PyFloat(5), PyFloat(10), PyFloat(11) }

AllHits == { [score |-> sc, payload |-> p] : sc \in Scores, p \in Payloads }

GoodPayload ==
    [text |-> PyStr(<<"t">>), url |-> PyStr(Chars(Https)), title |-> PyStr(<<"T">>),
     chunk_id |-> PyStr(<<"i">>), chunk_index |-> PyInt(0), total_chunks |-> PyInt(3)]

\* a well-formed hit and hits with one or two defects
SomeHits ==
    { [score |-> PyFloat(5), payload |-> GoodPayload],
      [score |-> PyFloat(10), payload |-> [GoodPayload EXCEPT !.url = PyStr(Chars(Http))]],
      [score |-> PyFloat(5), payload |-> [GoodPayload EXCEPT !.chunk_index = PyInt(5)]],
      [score |-> PyFloat(11), payload |-> GoodPayload],
      [score |-> PyFloat(-1), payload |-> [GoodPayload EXCEPT !.text = PyStr(<<>>)]],
      [score |-> PyFloat(0), payload |-> [k \in {"text", "url"} |-> GoodPayload[k]]] }

\* the store gives its hits best score first
Descending(hs) == \A i \in 1..(Len(hs) - 1) : hs[i].score.v >= hs[i + 1].score.v

HitLists ==
    { <<h>> : h \in AllHits }
    \cup { hs \in UNION { [1..n -> SomeHits] : n \in 0..MaxHits } : Descending(hs) }

\* retrieve.py: load_config, default_top_k
DefaultTopK == 5

\* a query run of retrieve.py with top_k and module_filter left out
DefaultQuery ==
    /\ via = "retrieve"
    /\ embed_ok = TRUE
    /\ top_k = DefaultTopK
    /\ module_filter = None
    /\ error_cause = "none"
    /\ hits = <<>>

ChunkerIdle ==
    ChunkerInit({DefaultChunkSize}, {DefaultChunkOverlap},
                {MakeDocument(AllFields, <<>>)})

InitRetrieve ==
    /\ ChunkerIdle
    /\ SuiteIdle
    /\ AppIdle
    /\ IngestIdle
    /\ DefaultQuery
    /\ rpc = "query"
    /\ \/ search_ok = TRUE /\ collection \in HitLists
       \/ search_ok = FALSE /\ collection = <<>>
    /\ results = <<>>
    /\ validation_results = NoValidation(0)
    /\ query_outcome = "none"
    /\ quality_results = NoQuality(0)

SpecRetrieve == InitRetrieve /\ [][RetrieveNext]_vars

(* Results with defective fields: missing, None, or of another type *)

GoodResult == FormatResult([score |-> PyFloat(5), payload |-> GoodPayload])

\* the values a defective field takes
DefectiveValues(key) ==
    CASE key = "url" -> { Absent, None, PyInt(5), PyStr(Chars(Https)) }
      [] key = "chunk_index" -> { Absent, None, PyStr(<<"x">>), PyInt(-1), PyInt(0),
                                  PyInt(5) }
      [] key = "total_chunks" -> { Absent, None, PyStr(<<"x">>), PyInt(3) }
      [] key = "score" -> { Absent, None, PyStr(<<"x">>), PyFloat(5), PyFloat(11) }

DefectKeys == {"url", "chunk_index", "total_chunks", "score"}

\* a result dict whose url, chunk_index, total_chunks and score are any of
\* the values above, Absent meaning that the dict has no such key
DefectiveResults ==
    { [k \in { k \in DOMAIN GoodResult : k \notin DefectKeys \/ f[k] # Absent } |->
          IF k \in DefectKeys THEN f[k] ELSE GoodResult[k]] :
        f \in [url : DefectiveValues("url"),
               chunk_index : DefectiveValues("chunk_index"),
               total_chunks : DefectiveValues("total_chunks"),
               score : DefectiveValues("score")] }

\* a search result whose payload holds such values; the score is the store's
DefectiveHits ==
    { [score |-> PyFloat(5),
       payload |-> [k \in DOMAIN r \ {"score", "module", "heading_hierarchy"} |-> r[k]]] :
        r \in DefectiveResults }

\* validate_metadata on any list of one or two such results, and the query
\* run on a collection whose payloads hold such values
InitDefective ==
    /\ ChunkerIdle
    /\ SuiteIdle
    /\ AppIdle
    /\ IngestIdle
    /\ validation_results = NoValidation(0)
    /\ query_outcome = "none"
    /\ quality_results = NoQuality(0)
    /\ DefaultQuery
    /\ \/ /\ rpc = "retrieved"
          /\ search_ok = TRUE
          /\ collection = <<>>
          /\ results \in { <<r>> : r \in DefectiveResults }
                         \cup { <<r, GoodResult>> : r \in DefectiveResults }
                         \cup { <<GoodResult, r>> : r \in DefectiveResults }
       \/ /\ rpc = "query"
          /\ search_ok \in BOOLEAN
          /\ collection \in { <<h>> : h \in DefectiveHits }
          /\ results = <<>>

SpecDefective == InitDefective /\ [][RetrieveNext]_vars

(* The texts validate_content_quality is given *)

\* clean texts, texts with one artifact each, a text with several
QualityTexts ==
    { <<"t">>,
      <<>>,
      <<" ", " ">>,
      <<"a", " ", " ", " ", "b">>,
      <<"a", " ", " ", "b">>,
      <<"a", "\n", "\n", "\n", "b">>,
      <<"a", "\n", "\n", "b">>,
      <<"a", "<", "b">>,
      <<"a", ">", "b">>,
      <<"&", "l", "t", ";">>,
      <<"&", "g", "t", ";">>,
      <<"&", "a", "m", "p", ";">>,
      <<"c", "l", "a", "s", "s", "=">>,
      <<"i", "d", "=">>,
      <<"h", "r", "e", "f", "=">>,
      <<"s", "r", "c", "=">>,
      <<"c", "l", "a", "s", "s">>,
      <<"N", "e", "x", "t", " ", Raquo>>,
      <<Laquo, " ", "P", "r", "e", "v", "i", "o", "u", "s">>,
      <<"E", "d", "i", "t", " ", "t", "h", "i", "s", " ", "p", "a", "g", "e">>,
      <<"T", "a", "b", "l", "e", " ", "o", "f", " ", "C", "o", "n", "t", "e", "n", "t", "s">>,
      <<"S", "k", "i", "p", " ", "t", "o", " ", "c", "o", "n", "t", "e", "n", "t">>,
      <<"n", "e", "x", "t", " ", "p", "a", "g", "e">>,
      <<"e", "d", "i", "t", " ", "t", "h", "i", "s", " ", "p", "a", "g", "e">>,
      <<"N", "e", "x", "t">>,
      <<"<", "a", " ", "h", "r", "e", "f", "=", "x", ">", "E", "d", "i", "t", " ", "t", "h",
        "i", "s", " ", "p", "a", "g", "e", " ", " ", " ">> }

\* a well-formed hit with each of the texts, a hit whose text is None, a hit
\* without text, and two hits with defective metadata
QualityHits ==
    { [score |-> PyFloat(5), payload |-> [GoodPayload EXCEPT !.text = PyStr(t)]] :
        t \in QualityTexts }
    \cup { [score |-> PyFloat(5), payload |-> [GoodPayload EXCEPT !.text = None]],
           [score |-> PyFloat(5),
            payload |-> [k \in DOMAIN GoodPayload \ {"text"} |-> GoodPayload[k]]],
           [score |-> PyFloat(11),
            payload |-> [GoodPayload EXCEPT !.text = PyStr(<<"a", "<", "b">>)]],
           [score |-> PyFloat(5),
            payload |-> [GoodPayload EXCEPT !.chunk_index = PyInt(5)]] }

QualityHitLists ==
    { hs \in UNION { [1..n -> QualityHits] : n \in 0..MaxHits } : Descending(hs) }

\* the query runs of SpecRetrieve and SpecDefective, and the query run on
\* collections that hold the texts above
InitQuality ==
    \/ InitRetrieve
    \/ InitDefective
    \/ /\ ChunkerIdle
       /\ SuiteIdle
       /\ AppIdle
       /\ IngestIdle
       /\ rpc = "query"
       /\ DefaultQuery
       /\ search_ok = TRUE
       /\ collection \in QualityHitLists
       /\ results = <<>>
       /\ validation_results = NoValidation(0)
       /\ query_outcome = "none"
       /\ quality_results = NoQuality(0)

SpecQuality == InitQuality /\ [][RetrieveNext]_vars

(* The retrievals of search.py and of RAGAgent *)

\* QdrantVectorStore.search: the record built from one search result
FormatSearchResult(hit) ==
    [text |-> PyGet(hit.payload, "text", None),
     url |-> PyGet(hit.payload, "url", None),
     title |-> PyGet(hit.payload, "title", None),
     module |-> PyGet(hit.payload, "module", None),
     heading_hierarchy |-> PyGet(hit.payload, "heading_hierarchy", None),
     score |-> hit.score,
     chunk_id |-> PyGet(hit.payload, "chunk_id", None)]

\* RAGAgent.retrieve_context: the chunk built from one search result
FormatContext(hit) ==
    [text |-> PyGet(hit.payload, "text", PyStr(<<>>)),
     url |-> PyGet(hit.payload, "url", PyStr(<<>>)),
     title |-> PyGet(hit.payload, "title", PyStr(<<>>)),
     module |-> PyGet(hit.payload, "module", None),
     heading_hierarchy |-> PyGet(hit.payload, "heading_hierarchy", PyStr(<<>>)),
     score |-> hit.score,
     chunk_id |-> PyGet(hit.payload, "chunk_id", PyStr(<<>>))]

\* CohereEmbedder.embed_query, called by search.py: the error is logged and
\* raised again
EmbedQuery ==
    /\ rpc = "embed"
    /\ via = "vector_store"
    /\ IF embed_ok
       THEN /\ rpc' = "query"
            /\ UNCHANGED <<query_outcome, error_cause>>
       ELSE /\ rpc' = "raised"
            /\ query_outcome' = EmbedError
            /\ error_cause' = EmbedError
    /\ UNCHANGED <<search_ok, hits, results, validation_results, quality_results, via,
                   embed_ok, collection, top_k, module_filter>>
    /\ UNCHANGED <<chunkerVars, suiteVars, ingestVars, appVars>>

\* QdrantVectorStore.search: the search and the results formatted, or the
\* error logged and raised again
Search ==
    /\ rpc = "query"
    /\ via = "vector_store"
    /\ IF search_ok
       THEN /\ hits' = QdrantSearch(collection, QueryFilter(module_filter), top_k)
            /\ results' = [i \in 1..Len(hits') |-> FormatSearchResult(hits'[i])]
            /\ rpc' = "retrieved"
            /\ UNCHANGED <<query_outcome, error_cause>>
       ELSE /\ UNCHANGED <<hits, results>>
            /\ rpc' = "raised"
            /\ query_outcome' = SearchError
            /\ error_cause' = SearchError
    /\ UNCHANGED <<search_ok, validation_results, quality_results, via, embed_ok,
                   collection, top_k, module_filter>>
    /\ UNCHANGED <<chunkerVars, suiteVars, ingestVars, appVars>>

\* RAGAgent.retrieve_context: the embedding, the search and the chunks
\* formatted; no error of the two calls is caught
RetrieveContext ==
    /\ rpc = "embed"
    /\ via = "rag_agent"
    /\ IF ~embed_ok
       THEN /\ UNCHANGED <<hits, results>>
            /\ rpc' = "raised"
            /\ query_outcome' = EmbedError
            /\ error_cause' = EmbedError
       ELSE IF ~search_ok
       THEN /\ UNCHANGED <<hits, results>>
            /\ rpc' = "raised"
            /\ query_outcome' = SearchError
            /\ error_cause' = SearchError
       ELSE /\ hits' = QdrantSearch(collection, QueryFilter(module_filter), top_k)
            /\ results' = [i \in 1..Len(hits') |-> FormatContext(hits'[i])]
            /\ rpc' = "retrieved"
            /\ UNCHANGED <<query_outcome, error_cause>>
    /\ UNCHANGED <<search_ok, validation_results, quality_results, via, embed_ok,
                   collection, top_k, module_filter>>
    /\ UNCHANGED <<chunkerVars, suiteVars, ingestVars, appVars>>

SearchNext ==
    \/ GenerateQueryEmbedding
    \/ RetrieveChunks
    \/ EmbedQuery
    \/ Search
    \/ RetrieveContext

MaxPoints == 3

MaxTopK == 2

Module01 == <<"m", "1">>

Module02 == <<"m", "2">>

\* the points of a collection: of module-01, of module-02, without module
StoredPoints ==
    { [score |-> PyFloat(sc), payload |-> p] :
        sc \in {5, 9},
        p \in { GoodPayload @@ [module |-> PyStr(Module01)],
                GoodPayload @@ [module |-> PyStr(Module02)],
                GoodPayload } }

\* the collections, ranked for the query vector
Collections ==
    { ps \in UNION { [1..n -> StoredPoints] : n \in 0..MaxPoints } : Descending(ps) }

\* one retrieval, by any of the three implementations, with any top_k >= 1,
\* with and without module_filter, the two external calls failing or not
InitSearch ==
    /\ ChunkerIdle
    /\ SuiteIdle
    /\ AppIdle
    /\ IngestIdle
    /\ rpc = "embed"
    /\ via \in {"retrieve", "vector_store", "rag_agent"}
    /\ embed_ok \in BOOLEAN
    /\ search_ok \in BOOLEAN
    /\ embed_ok \/ search_ok
    /\ collection \in Collections
    /\ top_k \in 1..MaxTopK
    /\ module_filter \in {None, PyStr(<<>>), PyStr(Module01)}
    /\ hits = <<>>
    /\ results = <<>>
    /\ validation_results = NoValidation(0)
    /\ quality_results = NoQuality(0)
    /\ query_outcome = "none"
    /\ error_cause = "none"

SpecSearch == InitSearch /\ [][SearchNext]_vars

(* run_validation_suite *)

MaxQueries == 3

\* str.lower() for one character
LowerChar(c) ==
    CASE c = "A" -> "a"
      [] c = "B" -> "b"
      [] c = "C" -> "c"
      [] c = "D" -> "d"
      [] c = "E" -> "e"
      [] c = "F" -> "f"
      [] c = "G" -> "g"
      [] c = "H" -> "h"
      [] c = "I" -> "i"
      [] c = "J" -> "j"
      [] c = "K" -> "k"
      [] c = "L" -> "l"
      [] c = "M" -> "m"
      [] c = "N" -> "n"
      [] c = "O" -> "o"
      [] c = "P" -> "p"
      [] c = "Q" -> "q"
      [] c = "R" -> "r"
      [] c = "S" -> "s"
      [] c = "T" -> "t"
      [] c = "U" -> "u"
      [] c = "V" -> "v"
      [] c = "W" -> "w"
      [] c = "X" -> "x"
      [] c = "Y" -> "y"
      [] c = "Z" -> "z"
      [] OTHER -> c

\* str.lower()
Lower(text) == [i \in 1..Len(text) |-> LowerChar(text[i])]

\* get_test_queries: id, min_score (in hundredths) and expected_keywords of the
\* test queries; the other keys are only printed
get_test_queries ==
    <<[id |-> "Q001", min_score |-> 65,
       expected_keywords |->
           <<<<"p", "h", "y", "s", "i", "c", "a", "l", " ", "A", "I">>,
             <<"i", "n", "t", "e", "l", "l", "i", "g", "e", "n", "t">>,
             <<"s", "y", "s", "t", "e", "m", "s">>>>],
      [id |-> "Q002", min_score |-> 60,
       expected_keywords |->
           <<<<"G", "a", "z", "e", "b", "o">>,
             <<"s", "e", "n", "s", "o", "r">>,
             <<"s", "i", "m", "u", "l", "a", "t", "i", "o", "n">>>>],
      [id |-> "Q003", min_score |-> 65,
       expected_keywords |->
           <<<<"d", "i", "g", "i", "t", "a", "l", " ", "t", "w", "i", "n">>,
             <<"v", "i", "r", "t", "u", "a", "l">>,
             <<"r", "e", "p", "r", "e", "s", "e", "n", "t", "a", "t", "i", "o", "n">>>>],
      [id |-> "Q004", min_score |-> 60,
       expected_keywords |->
           <<<<"s", "e", "n", "s", "o", "r">>,
             <<"r", "o", "b", "o", "t">>,
             <<"m", "e", "a", "s", "u", "r", "e">>>>],
      [id |-> "Q005", min_score |-> 55,
       expected_keywords |->
           <<<<"U", "n", "i", "t", "y">>,
             <<"r", "e", "n", "d", "e", "r">>,
             <<"v", "i", "s", "u", "a", "l">>>>],
      [id |-> "Q006", min_score |-> 60,
       expected_keywords |->
           <<<<"p", "h", "y", "s", "i", "c", "s">>,
             <<"s", "i", "m", "u", "l", "a", "t", "i", "o", "n">>,
             <<"r", "o", "b", "o", "t", "i", "c", "s">>>>],
      [id |-> "Q007", min_score |-> 50,
       expected_keywords |->
           <<<<"R", "O", "S">>,
             <<"R", "o", "b", "o", "t", " ", "O", "p", "e", "r", "a", "t", "i", "n", "g", " ", "S",
              "y", "s", "t", "e", "m">>>>],
      [id |-> "Q008", min_score |-> 55,
       expected_keywords |->
           <<<<"s", "i", "m", "u", "l", "a", "t", "i", "o", "n">>,
             <<"r", "e", "a", "l">>,
             <<"d", "i", "f", "f", "e", "r", "e", "n", "c", "e">>>>]>>

\* the test queries that are run: the first MaxQueries of them
TestQueries == SubSeq(get_test_queries, 1, Min(MaxQueries, Len(get_test_queries)))

\* run_validation_suite: retrieve_chunks(client, query_embedding, config, top_k=5)
SuiteTopK == 5

\* a number in hundredths, whatever its type
Hundredths(x) == 10 * Tenths(x)

\* the keywords are looked for as they are spelled
HasKeyword_CaseSensitive(text, keywords) ==
    \E k \in 1..Len(keywords) : Contains(text, keywords[k])

\* run_validation_suite: any(kw.lower() in top_text for kw in expected_keywords),
\* top_text the text in lower case
HasKeyword(text, keywords) ==
    \E k \in 1..Len(keywords) : Contains(Lower(text), Lower(keywords[k]))

\* generate_query_embedding, then retrieve_chunks, for one test query: the
\* chunks, or the error raised with its cause
QueryRun(reply) ==
    IF ~reply.embed_ok
    THEN [error |-> [message |-> "Failed to generate query embedding",
                     cause |-> EmbedError],
          chunks |-> <<>>]
    ELSE IF ~reply.search_ok
    THEN [error |-> [message |-> SearchFailure(SearchError).outcome,
                     cause |-> SearchFailure(SearchError).cause],
          chunks |-> <<>>]
    ELSE LET found == QdrantSearch(reply.collection, QueryFilter(None), SuiteTopK)
         IN  [error |-> [message |-> "none", cause |-> "none"],
              chunks |-> [i \in 1..Len(found) |-> FormatResult(found[i])]]

\* run_validation_suite: the error the checks of the chunks raise, "none" if
\* none: the comparison of a score that is no number, lower() of a text that
\* is no string
CheckError(test, cs) ==
    IF cs = <<>> THEN "none"
    ELSE IF ~IsNumber(cs[1].score) THEN "TypeError"
    ELSE IF test.expected_keywords # <<>> /\ cs[1].text.t # "str" THEN "AttributeError"
    ELSE "none"

\* run_validation_suite: query_result['issues'] after the three checks
QueryIssues(test, cs) ==
    (IF Len(cs) = 0 THEN <<"No results returned">> ELSE <<>>)
    \o (IF cs # <<>> /\ Hundredths(cs[1].score) < test.min_score
         THEN <<"Top score below minimum">>
         ELSE <<>>)
    \o (IF cs # <<>> /\ test.expected_keywords # <<>>
            /\ ~HasKeyword(cs[1].text.v, test.expected_keywords)
         THEN <<"No expected keywords found in top result">>
         ELSE <<>>)

\* the entry of the query is appended and not counted
RecordError_NotCounted(res, test, error) ==
    [res EXCEPT !.query_results =
                    Append(@, [query_id |-> test.id, passed |-> FALSE, error |-> error])]

\* run_validation_suite: except Exception as e
RecordError(res, test, error) ==
    [res EXCEPT !.failed = @ + 1,
                !.query_results =
                    Append(@, [query_id |-> test.id, passed |-> FALSE, error |-> error])]

\* run_validation_suite: the counters and the entry of a query that was checked
RecordVerdict(res, test, cs) ==
    LET issues == QueryIssues(test, cs)
        query_result == [query_id |-> test.id, chunks_retrieved |-> Len(cs),
                         passed |-> issues = <<>>, issues |-> issues]
    IN  IF query_result.passed
        THEN [res EXCEPT !.passed = @ + 1, !.query_results = Append(@, query_result)]
        ELSE [res EXCEPT !.failed = @ + 1, !.query_results = Append(@, query_result)]

\* run_validation_suite: one turn of the loop over the test queries
RunTestQuery ==
    /\ spc = "running"
    /\ test_no < Len(TestQueries)
    /\ LET test == TestQueries[test_no + 1]
           run == QueryRun(replies[test_no + 1])
       IN  suite_results' =
               IF run.error.message # "none"
               THEN RecordError(suite_results, test, run.error)
               ELSE IF CheckError(test, run.chunks) # "none"
               THEN RecordError(suite_results, test,
                                [message |-> CheckError(test, run.chunks),
                                 cause |-> "none"])
               ELSE RecordVerdict(suite_results, test, run.chunks)
    /\ test_no' = test_no + 1
    /\ UNCHANGED <<spc, replies>>
    /\ UNCHANGED <<chunkerVars, queryVars, ingestVars, appVars>>

\* run_validation_suite: return results
SuiteReturn ==
    /\ spc = "running"
    /\ test_no = Len(TestQueries)
    /\ spc' = "returned"
    /\ UNCHANGED <<replies, test_no, suite_results>>
    /\ UNCHANGED <<chunkerVars, queryVars, ingestVars, appVars>>

SuiteNext ==
    \/ RunTestQuery
    \/ SuiteReturn

\* a point with a text and a score
SuitePoint(score, text) ==
    [score |-> PyFloat(score), payload |-> [GoodPayload EXCEPT !.text = text]]

\* what the store holds for a test query: nothing, a top point with a keyword
\* of Q001, of Q002 or of Q003 in other case, with no keyword, with no text;
\* with a score of 0.6 or 0.7
SuiteCollections ==
    { <<>>,
      <<SuitePoint(7, PyStr(<<"P", "h", "y", "s", "i", "c", "a", "l", " ", "A", "I">>))>>,
      <<SuitePoint(6, PyStr(<<"P", "h", "y", "s", "i", "c", "a", "l", " ", "A", "I">>))>>,
      <<SuitePoint(7, PyStr(<<"G", "A", "Z", "E", "B", "O">>))>>,
      <<SuitePoint(6, PyStr(<<"G", "A", "Z", "E", "B", "O">>))>>,
      <<SuitePoint(7, PyStr(<<"a", "n", " ", "a", "r", "m">>))>>,
      <<SuitePoint(7, PyStr(<<"a", " ", "V", "i", "r", "t", "u", "a", "l", " ", "t", "w", "i", "n">>))>>,
      <<SuitePoint(7, None)>>,
      <<SuitePoint(7, PyStr(<<"a", "n", " ", "a", "r", "m">>)),
        SuitePoint(6, PyStr(<<"P", "h", "y", "s", "i", "c", "a", "l", " ", "A", "I">>))>> }

\* for one test query: the embedding fails, the search fails, or the store
\* answers
SuiteReplies ==
    { [embed_ok |-> FALSE, search_ok |-> TRUE, collection |-> <<>>],
      [embed_ok |-> TRUE, search_ok |-> FALSE, collection |-> <<>>] }
    \cup { [embed_ok |-> TRUE, search_ok |-> TRUE, collection |-> c] :
             c \in SuiteCollections }

InitSuite ==
    /\ ChunkerIdle
    /\ IngestIdle
    /\ AppIdle
    /\ rpc = "idle"
    /\ DefaultQuery
    /\ search_ok = TRUE
    /\ collection = <<>>
    /\ results = <<>>
    /\ validation_results = NoValidation(0)
    /\ quality_results = NoQuality(0)
    /\ query_outcome = "none"
    /\ spc = "running"
    /\ replies \in [1..Len(TestQueries) -> SuiteReplies]
    /\ test_no = 0
    /\ suite_results = NoSuiteResults(Len(TestQueries))

SpecSuite == InitSuite /\ [][SuiteNext]_vars

(* embed_chunks and insert_chunks *)

MaxChunks == 3

MaxBatch == 2

\* d[key] = value on a dict
SetKey(d, key, value) ==
    [k \in DOMAIN d \cup {key} |-> IF k = key THEN value ELSE d[k]]

\* the embedding the service computes for a text
Vec(text) == [t |-> "vector", v |-> text]

\* the service answers with one embedding too few
Embeddings_OneShort(texts) == [i \in 1..(Len(texts) - 1) |-> Vec(texts[i])]

\* client.embed: one embedding per text, in the order of the texts
Embeddings(texts) == [i \in 1..Len(texts) |-> Vec(texts[i])]

\* embed_chunks: for chunk, embedding in zip(batch, response.embeddings):
\* chunk['embedding'] = embedding
BatchEmbedded(batch, embeddings) ==
    [i \in 1..Len(batch) |->
        IF i <= Len(embeddings) THEN SetKey(batch[i], "embedding", embeddings[i])
        ELSE batch[i]]

\* embed_chunks: the except branch: None for the chunks without 'embedding'
BatchFailed(batch) ==
    [i \in 1..Len(batch) |->
        IF "embedding" \in DOMAIN batch[i] THEN batch[i]
        ELSE SetKey(batch[i], "embedding", None)]

\* every chunk is returned
EmbeddingNotNone_Always(chunk) == TRUE

\* embed_chunks: c.get('embedding') is not None
EmbeddingNotNone(chunk) == PyGet(chunk, "embedding", None) # None

\* insert_chunks: 'embedding' not in chunk or chunk['embedding'] is None
SkipsChunk(chunk) == "embedding" \notin DOMAIN chunk \/ chunk["embedding"] = None

\* the loop ends at the first batch that fails
NextEmbedBatch_StopOnFailure(i, size, ok, total) == IF ok THEN i + size ELSE total

\* embed_chunks: for i in range(0, total_chunks, self.batch_size), whether the
\* batch failed or not
NextEmbedBatch(i, size, ok, total) == i + size

\* insert_chunks: for i in range(0, len(points), batch_size), whether the
\* batch failed or not
NextUpsertBatch(i, size, ok, total) == i + size

\* embed_chunks: one batch: the call of client.embed, and the embeddings put
\* into the chunks or None put into them
EmbedBatch ==
    /\ ipc = "embed"
    /\ batch_start < Len(in_chunks)
    /\ \E ok \in BOOLEAN :
          LET batch == PySlice(in_chunks, batch_start, batch_start + embed_batch_size)
              batch_texts == [i \in 1..Len(batch) |-> batch[i].text]
              after == IF ok THEN BatchEmbedded(batch, Embeddings(batch_texts))
                       ELSE BatchFailed(batch)
          IN  /\ in_chunks' =
                    [i \in 1..Len(in_chunks) |->
                        IF i > batch_start /\ i <= batch_start + Len(batch)
                        THEN after[i - batch_start]
                        ELSE in_chunks[i]]
              /\ embed_calls' =
                    Append(embed_calls,
                           [start |-> batch_start, texts |-> batch_texts, ok |-> ok])
              /\ batch_start' =
                    NextEmbedBatch(batch_start, embed_batch_size, ok, Len(in_chunks))
    /\ UNCHANGED <<ipc, embed_batch_size, valid_chunks, to_insert, insert_batch_size,
                   points, upload_start, upsert_calls, stored, next_uuid>>
    /\ UNCHANGED pipelineVars
    /\ UNCHANGED <<chunkerVars, queryVars, suiteVars, appVars>>

\* embed_chunks: after the last batch, the chunks with an embedding are returned
EmbedReturn ==
    /\ ipc = "embed"
    /\ batch_start >= Len(in_chunks)
    /\ valid_chunks' = SelectSeq(in_chunks, EmbeddingNotNone)
    /\ ipc' = "embedded"
    /\ UNCHANGED <<embed_batch_size, in_chunks, batch_start, embed_calls, to_insert,
                   insert_batch_size, points, upload_start, upsert_calls, stored,
                   next_uuid>>
    /\ UNCHANGED pipelineVars
    /\ UNCHANGED <<chunkerVars, queryVars, suiteVars, appVars>>

\* the run goes on to the store whatever embed_chunks returned
NoEmbeddings_Never(chunks_with_embeddings) == FALSE

\* run_ingestion_pipeline: if not chunks_with_embeddings: return
NoEmbeddings(chunks_with_embeddings) == chunks_with_embeddings = <<>>

\* the substrings get_embedding_dimension looks for
V3 == <<"v", "3", ".", "0">>

LightV3 == <<"l", "i", "g", "h", "t", "-", "v", "3", ".", "0">>

\* the length of the vectors the embedding service returns for a model
ModelDimension(name) ==
    CASE name = DefaultModel -> 1024
      [] name = LightModel -> 384
      [] name = OlderModel -> 768

\* get_embedding_dimension: whether the else branch, which embeds a test
\* text, is taken
NeedsProbe(name) == ~Contains(name, V3) /\ ~Contains(name, LightV3)

\* get_embedding_dimension: the tests in the order of the code; probe is
\* len(test_response.embeddings[0])
get_embedding_dimension(name, probe) ==
    IF Contains(name, V3) THEN 1024
    ELSE IF Contains(name, LightV3) THEN 384
    ELSE probe

\* create_collection: the calls it makes on the client, in their order
CreateCollectionCalls(exists, recreate) ==
    IF exists
    THEN IF recreate
         THEN <<"get_collections", "delete_collection", "create_collection">>
         ELSE <<"get_collections">>
    ELSE <<"get_collections", "create_collection">>

\* the calls made when call number failed_at raises (0: none raises), each
\* with its outcome
CallsMade(calls, failed_at) ==
    [i \in 1..(IF failed_at = 0 THEN Len(calls) ELSE failed_at) |->
        [op |-> calls[i], ok |-> i # failed_at]]

\* whether the operation op was carried out by the store
Done(made, op) == \E i \in 1..Len(made) : made[i].op = op /\ made[i].ok

\* ingest.py, steps 4 and 5: the run returns when no chunk was embedded; else
\* get_embedding_dimension and create_collection with that size (an error of
\* a client is raised to the caller), and the chunks embed_chunks returned are
\* given to insert_chunks
SetUpStore ==
    /\ ipc = "embedded"
    /\ IF NoEmbeddings(valid_chunks)
       THEN /\ ipc' = "stopped"
            /\ ingest_outcome' = "returned"
            /\ UNCHANGED <<to_insert, stored, collection_exists, store_ops, steps,
                           collection_dim>>
       ELSE \E probe_ok \in (IF NeedsProbe(model) THEN BOOLEAN ELSE {TRUE}) :
               IF ~probe_ok
               THEN /\ steps' = Append(steps, 4)
                    /\ ipc' = "raised"
                    /\ ingest_outcome' = EmbedError
                    /\ UNCHANGED <<to_insert, stored, collection_exists, store_ops,
                                   collection_dim>>
               ELSE LET embedding_dim ==
                            get_embedding_dimension(model, ModelDimension(model))
                        calls ==
                            CreateCollectionCalls(collection_exists, recreate_collection)
                    IN  \E failed_at \in 0..Len(calls) :
                           LET made == CallsMade(calls, failed_at)
                           IN  /\ store_ops' = store_ops \o made
                               /\ stored' = IF Done(made, "delete_collection") THEN <<>>
                                            ELSE stored
                               /\ collection_exists' =
                                     IF Done(made, "create_collection") THEN TRUE
                                     ELSE IF Done(made, "delete_collection") THEN FALSE
                                     ELSE collection_exists
                               /\ collection_dim' =
                                     IF Done(made, "create_collection") THEN embedding_dim
                                     ELSE collection_dim
                               /\ IF failed_at = 0
                                  THEN /\ steps' = steps \o <<4, 5>>
                                       /\ to_insert' = valid_chunks
                                       /\ ipc' = "insert"
                                       /\ UNCHANGED ingest_outcome
                                  ELSE /\ steps' = Append(steps, 4)
                                       /\ ipc' = "raised"
                                       /\ ingest_outcome' = SearchError
                                       /\ UNCHANGED to_insert
    /\ UNCHANGED <<embed_batch_size, in_chunks, batch_start, embed_calls, valid_chunks,
                   insert_batch_size, points, upload_start, upsert_calls, next_uuid>>
    /\ UNCHANGED <<documents, recreate_collection, run_no, model>>
    /\ UNCHANGED <<chunkerVars, queryVars, suiteVars, appVars>>

\* insert_chunks: payload
PointPayload(chunk) ==
    [text |-> chunk["text"],
     url |-> chunk["url"],
     title |-> chunk["title"],
     module |-> PyGet(chunk, "module", None),
     heading_hierarchy |-> PyGet(chunk, "heading_hierarchy", None),
     chunk_index |-> PyGet(chunk, "chunk_index", None),
     total_chunks |-> PyGet(chunk, "total_chunks", None),
     chunk_id |-> PyGet(chunk, "chunk_id", None)]

\* the id of a point is the chunk_id of its chunk
PointId_ChunkId(chunk, fresh) == PyGet(chunk, "chunk_id", None)

\* insert_chunks: id=str(uuid.uuid4()): an id that no earlier point has, whatever
\* the chunk is
PointId(chunk, fresh) == fresh

\* client.upsert: a point replaces the stored point of the same id, if any,
\* and is added otherwise
Upsert(held, batch) ==
    SelectSeq(held, LAMBDA p : \A n \in 1..Len(batch) : batch[n].id # p.id) \o batch

\* insert_chunks: the loop that builds one point, with a new uuid4, for every
\* chunk that is not skipped
BuildPoints ==
    /\ ipc = "insert"
    /\ LET kept == SelectSeq(to_insert, LAMBDA c : ~SkipsChunk(c))
       IN  /\ points' = [k \in 1..Len(kept) |->
                            [id |-> PointId(kept[k], next_uuid + k),
                             vector |-> kept[k]["embedding"],
                             payload |-> PointPayload(kept[k])]]
           /\ next_uuid' = next_uuid + Len(kept)
    /\ upload_start' = 0
    /\ ipc' = "upload"
    /\ UNCHANGED <<embed_batch_size, in_chunks, batch_start, embed_calls, valid_chunks,
                   to_insert, insert_batch_size, upsert_calls, stored>>
    /\ UNCHANGED pipelineVars
    /\ UNCHANGED <<chunkerVars, queryVars, suiteVars, appVars>>

\* insert_chunks: one batch: the call of client.upsert, its error logged; the
\* store refuses vectors whose length is not the size of the collection
UpsertBatch ==
    /\ ipc = "upload"
    /\ upload_start < Len(points)
    /\ \E ok \in (IF collection_exists /\ collection_dim = ModelDimension(model)
                  THEN BOOLEAN ELSE {FALSE}) :
          LET batch == PySlice(points, upload_start, upload_start + insert_batch_size)
          IN  /\ upsert_calls' =
                    Append(upsert_calls,
                           [start |-> upload_start, batch |-> batch, ok |-> ok])
              /\ store_ops' = Append(store_ops, [op |-> "upsert", ok |-> ok])
              /\ stored' = IF ok THEN Upsert(stored, batch) ELSE stored
              /\ upload_start' =
                    NextUpsertBatch(upload_start, insert_batch_size, ok, Len(points))
    /\ UNCHANGED <<ipc, embed_batch_size, in_chunks, batch_start, embed_calls,
                   valid_chunks, to_insert, insert_batch_size, points, next_uuid>>
    /\ UNCHANGED <<documents, recreate_collection, collection_exists, steps,
                   ingest_outcome, run_no, model, collection_dim>>
    /\ UNCHANGED <<chunkerVars, queryVars, suiteVars, appVars>>

\* insert_chunks: after the last batch
InsertReturn ==
    /\ ipc = "upload"
    /\ upload_start >= Len(points)
    /\ ipc' = "inserted"
    /\ UNCHANGED <<embed_batch_size, in_chunks, batch_start, embed_calls, valid_chunks,
                   to_insert, insert_batch_size, points, upload_start, upsert_calls,
                   stored, next_uuid>>
    /\ UNCHANGED pipelineVars
    /\ UNCHANGED <<chunkerVars, queryVars, suiteVars, appVars>>

IngestNext ==
    \/ EmbedBatch
    \/ EmbedReturn
    \/ SetUpStore
    \/ BuildPoints
    \/ UpsertBatch
    \/ InsertReturn

\* the chunks of a page of n sections, the text of section i of i words
PageChunks(n) ==
    LET page == MakeDocument(AllFields, <<>>)
    IN  AddIndices([i \in 1..n |-> MakeChunk([k \in 1..i |-> "w"], <<>>, page)],
                   page["url"])

\* an embedding a chunk has from an earlier run
OldVec == Vec(<<"old">>)

\* the chunk lists embed_chunks is given: the chunks of a page, any of them
\* with an embedding of an earlier run
ChunkLists ==
    { [i \in 1..n |-> IF i \in old THEN SetKey(PageChunks(n)[i], "embedding", OldVec)
                      ELSE PageChunks(n)[i]] :
        n \in 0..MaxChunks, old \in SUBSET (1..MaxChunks) }

\* the chunk lists insert_chunks is given when it is called on its own: any
\* chunk may lack 'embedding' or have None for it
DirectLists ==
    UNION { { [i \in 1..n |->
                 IF e[i] = Absent THEN PageChunks(n)[i]
                 ELSE SetKey(PageChunks(n)[i], "embedding", e[i])] :
              e \in [1..n -> {Absent, None, OldVec}] } : n \in 0..MaxChunks }

\* the ingestion from embed_chunks on, or insert_chunks called on its own on
\* a collection that exists
InitIngest ==
    /\ ChunkerIdle
    /\ SuiteIdle
    /\ AppIdle
    /\ rpc = "idle"
    /\ DefaultQuery
    /\ search_ok = TRUE
    /\ collection = <<>>
    /\ results = <<>>
    /\ validation_results = NoValidation(0)
    /\ quality_results = NoQuality(0)
    /\ query_outcome = "none"
    /\ embed_batch_size \in 1..MaxBatch
    /\ insert_batch_size \in 1..MaxBatch
    /\ batch_start = 0
    /\ embed_calls = <<>>
    /\ valid_chunks = <<>>
    /\ points = <<>>
    /\ upload_start = 0
    /\ upsert_calls = <<>>
    /\ stored = <<>>
    /\ next_uuid = 0
    /\ documents = <<>>
    /\ recreate_collection = FALSE
    /\ store_ops = <<>>
    /\ steps = <<>>
    /\ ingest_outcome = "none"
    /\ run_no = 0
    /\ model = DefaultModel
    /\ \/ /\ ipc = "embed"
          /\ in_chunks \in ChunkLists
          /\ to_insert = <<>>
          /\ collection_exists = FALSE
          /\ collection_dim = 0
       \/ /\ ipc = "insert"
          /\ in_chunks = <<>>
          /\ to_insert \in DirectLists
          /\ collection_exists = TRUE
          /\ collection_dim = ModelDimension(model)

SpecIngest == InitIngest /\ [][IngestNext]_vars

(* run_ingestion_pipeline *)

MaxRuns == 2

\* a page the crawler extracted: n lines, each a level-1 heading
CrawledPage(url, n) ==
    [url |-> url,
     title |-> <<"A">>,
     module |-> PyStr("module-01"),
     content |-> JoinWith([i \in 1..n |-> <<"#", "h">> \o [k \in 1..i |-> "w"]], NL)]

\* chunk_document on a page whose every line is a level-1 heading of at most
\* chunk_size words: every line is a section of its own and one chunk
HeadingPageChunks(doc) ==
    LET page_lines == SplitLines(doc["content"])
    IN  AddIndices([i \in 1..Len(page_lines) |->
                       MakeChunk(page_lines[i], <<HeadingText(page_lines[i])>>, doc)],
                   doc["url"])

\* chunk_all_documents: all_chunks.extend(chunks) for every document
RECURSIVE ChunkAllDocuments(_)
ChunkAllDocuments(docs) ==
    IF docs = <<>> THEN <<>>
    ELSE HeadingPageChunks(Head(docs)) \o ChunkAllDocuments(Tail(docs))

\* what crawl_all_docs may return: no page, or the pages of one or two paths
CrawlResults ==
    { <<>> }
    \cup { <<CrawledPage("https://x/a", n)>> : n \in 1..MaxChunks }
    \cup { <<CrawledPage("https://x/a", n), CrawledPage("https://x/b", m)>> :
             n \in 1..MaxChunks, m \in 1..MaxChunks }

\* ingest.py, step 1: crawl_all_docs; the run returns when it gives no document
CrawlAllDocs ==
    /\ ipc = "crawl"
    /\ steps' = Append(steps, 1)
    /\ \E found \in { ds \in CrawlResults : Len(ChunkAllDocuments(ds)) <= MaxChunks } :
          /\ documents' = found
          /\ IF found = <<>>
             THEN ipc' = "stopped" /\ ingest_outcome' = "returned"
             ELSE ipc' = "chunk" /\ UNCHANGED ingest_outcome
    /\ UNCHANGED <<embed_batch_size, in_chunks, batch_start, embed_calls, valid_chunks,
                   to_insert, insert_batch_size, points, upload_start, upsert_calls,
                   stored, next_uuid>>
    /\ UNCHANGED <<recreate_collection, collection_exists, store_ops, run_no, model,
                   collection_dim>>
    /\ UNCHANGED <<chunkerVars, queryVars, suiteVars, appVars>>

\* ingest.py, step 2 and the start of step 3: chunk_all_documents; the run
\* returns when it gives no chunk, else the chunks are given to embed_chunks
ChunkDocuments ==
    /\ ipc = "chunk"
    /\ LET all_chunks == ChunkAllDocuments(documents)
       IN  IF all_chunks = <<>>
           THEN /\ steps' = Append(steps, 2)
                /\ ipc' = "stopped"
                /\ ingest_outcome' = "returned"
                /\ UNCHANGED in_chunks
           ELSE /\ steps' = steps \o <<2, 3>>
                /\ ipc' = "embed"
                /\ in_chunks' = all_chunks
                /\ UNCHANGED ingest_outcome
    /\ batch_start' = 0
    /\ UNCHANGED <<embed_batch_size, embed_calls, valid_chunks, to_insert,
                   insert_batch_size, points, upload_start, upsert_calls, stored,
                   next_uuid>>
    /\ UNCHANGED <<documents, recreate_collection, collection_exists, store_ops, run_no,
                   model, collection_dim>>
    /\ UNCHANGED <<chunkerVars, queryVars, suiteVars, appVars>>

\* ingest.py, after insert_chunks: get_collection_info (its error is logged)
\* and the normal return
PipelineReturn ==
    /\ ipc = "inserted"
    /\ run_no >= 1
    /\ \E ok \in BOOLEAN : store_ops' = Append(store_ops, [op |-> "get_collection", ok |-> ok])
    /\ ipc' = "completed"
    /\ ingest_outcome' = "returned"
    /\ UNCHANGED <<embed_batch_size, in_chunks, batch_start, embed_calls, valid_chunks,
                   to_insert, insert_batch_size, points, upload_start, upsert_calls,
                   stored, next_uuid>>
    /\ UNCHANGED <<documents, recreate_collection, collection_exists, steps, run_no,
                   model, collection_dim>>
    /\ UNCHANGED <<chunkerVars, queryVars, suiteVars, appVars>>

\* ingest.py, __main__: the pipeline is run once more, on the store the
\* earlier run left
RunAgain ==
    /\ ipc \in {"completed", "stopped", "raised"}
    /\ run_no >= 1
    /\ run_no < MaxRuns
    /\ run_no' = run_no + 1
    /\ recreate_collection' \in BOOLEAN
    /\ ipc' = "crawl"
    /\ documents' = <<>>
    /\ in_chunks' = <<>>
    /\ batch_start' = 0
    /\ embed_calls' = <<>>
    /\ valid_chunks' = <<>>
    /\ to_insert' = <<>>
    /\ points' = <<>>
    /\ upload_start' = 0
    /\ upsert_calls' = <<>>
    /\ store_ops' = <<>>
    /\ steps' = <<>>
    /\ ingest_outcome' = "none"
    /\ UNCHANGED <<embed_batch_size, insert_batch_size, stored, next_uuid,
                   collection_exists, model, collection_dim>>
    /\ UNCHANGED <<chunkerVars, queryVars, suiteVars, appVars>>

PipelineNext ==
    \/ CrawlAllDocs
    \/ ChunkDocuments
    \/ IngestNext
    \/ PipelineReturn
    \/ RunAgain

\* the first run of the pipeline, on a store that has no collection yet; the
\* pipeline passes no batch size, the two loops use their default
InitPipeline ==
    /\ ChunkerIdle
    /\ SuiteIdle
    /\ AppIdle
    /\ rpc = "idle"
    /\ DefaultQuery
    /\ search_ok = TRUE
    /\ collection = <<>>
    /\ results = <<>>
    /\ validation_results = NoValidation(0)
    /\ quality_results = NoQuality(0)
    /\ query_outcome = "none"
    /\ ipc = "crawl"
    /\ embed_batch_size = MaxBatch
    /\ insert_batch_size = MaxBatch
    /\ in_chunks = <<>>
    /\ batch_start = 0
    /\ embed_calls = <<>>
    /\ valid_chunks = <<>>
    /\ to_insert = <<>>
    /\ points = <<>>
    /\ upload_start = 0
    /\ upsert_calls = <<>>
    /\ stored = <<>>
    /\ next_uuid = 0
    /\ documents = <<>>
    /\ recreate_collection \in BOOLEAN
    /\ collection_exists = FALSE
    /\ store_ops = <<>>
    /\ steps = <<>>
    /\ ingest_outcome = "none"
    /\ run_no = 1
    /\ model \in {DefaultModel, LightModel, OlderModel}
    /\ collection_dim = 0

SpecPipeline == InitPipeline /\ [][PipelineNext]_vars

(* api_server.py: POST /api/query and GET /api/health *)

MinQueryLength == 1

MaxQueryLength == 1000

MaxRequests == 3

\* an empty query is accepted
ValidQuery_NoMinimum(body) ==
    /\ "query" \in DOMAIN body
    /\ body["query"].t = "str"
    /\ Len(body["query"].v) <= MaxQueryLength

\* QueryRequest: query: str = Field(..., min_length=1, max_length=1000), as
\* FastAPI checks it before the endpoint function is called
ValidQuery(body) ==
    /\ "query" \in DOMAIN body
    /\ body["query"].t = "str"
    /\ Len(body["query"].v) >= MinQueryLength
    /\ Len(body["query"].v) <= MaxQueryLength

\* a text of n characters
TextOf(n) == [i \in 1..n |-> "q"]

\* the JSON bodies posted to /api/query: no query, and queries of the lengths
\* at and around the two limits
RequestBodies ==
    { [k \in {} |-> None] }
    \cup { [query |-> PyStr(TextOf(n))] :
             n \in {0, MinQueryLength, MaxQueryLength, MaxQueryLength + 1} }

\* lifespan: agent = RAGAgent(); an error of the constructor is raised again
\* and the server does not start
Lifespan ==
    /\ api_state = "created"
    /\ \E ok \in BOOLEAN :
          IF ok
          THEN agent' = [t |-> "RAGAgent"] /\ api_state' = "serving"
          ELSE agent' = agent /\ api_state' = "failed"
    /\ UNCHANGED <<responses, agent_calls>>
    /\ UNCHANGED <<chunkerVars, queryVars, suiteVars, ingestVars, crawlVars, toolVars>>

\* POST /api/query: the validation of the body by FastAPI (422), then
\* query_agent: 503 without agent, else the call of agent.query_async, whose
\* error is answered 500
PostQuery ==
    /\ api_state = "serving"
    /\ Len(responses) < MaxRequests
    /\ \E body \in RequestBodies, agent_ok \in BOOLEAN :
          IF ~ValidQuery(body)
          THEN /\ responses' =
                     Append(responses, [path |-> "/api/query", body |-> body, status |-> 422])
               /\ UNCHANGED agent_calls
          ELSE IF agent = None
          THEN /\ responses' =
                     Append(responses, [path |-> "/api/query", body |-> body, status |-> 503])
               /\ UNCHANGED agent_calls
          ELSE /\ agent_calls' = Append(agent_calls, [user_query |-> body["query"].v,
                                                      ok |-> agent_ok])
               /\ responses' =
                     Append(responses, [path |-> "/api/query", body |-> body,
                                        status |-> IF agent_ok THEN 200 ELSE 500])
    /\ UNCHANGED <<agent, api_state>>
    /\ UNCHANGED <<chunkerVars, queryVars, suiteVars, ingestVars, crawlVars, toolVars>>

\* GET /api/health: agent_ready = agent is not None
HealthCheck ==
    /\ api_state = "serving"
    /\ Len(responses) < MaxRequests
    /\ responses' = Append(responses, [path |-> "/api/health",
                                       body |-> [agent_ready |-> agent # None],
                                       status |-> 200])
    /\ UNCHANGED <<agent, api_state, agent_calls>>
    /\ UNCHANGED <<chunkerVars, queryVars, suiteVars, ingestVars, crawlVars, toolVars>>

ApiNext ==
    \/ Lifespan
    \/ PostQuery
    \/ HealthCheck

\* the app before its lifespan has run, or served without it (the global
\* agent is None until the lifespan has set it)
InitApi ==
    /\ ChunkerIdle
    /\ QueryIdle
    /\ SuiteIdle
    /\ IngestIdle
    /\ agent = None
    /\ CrawlIdle
    /\ ToolIdle
    /\ api_state \in {"created", "serving"}
    /\ responses = <<>>
    /\ agent_calls = <<>>

SpecApi == InitApi /\ [][ApiNext]_vars

(* crawler.py: DocusaurusCrawler *)

MaxPaths == 2

\* the paths of the site's pages
DocsRoot == <<"/", "d">>

ModuleA == <<"/", "d", "/", "a">>

ModuleAPage == <<"/", "d", "/", "a", "/", "p">>

ModuleB == <<"/", "d", "/", "b">>

\* urljoin(self.base_url, docs_path), and clean_url: scheme, netloc and path
SiteUrl(path) == [netloc |-> "x", path |-> path]

\* an <a href> of a page, made absolute
Link(netloc, path, query, fragment) ==
    [netloc |-> netloc, path |-> path, query |-> query, fragment |-> fragment]

\* the links of the pages of the site
PageLinks(url) ==
    CASE url = SiteUrl(DocsRoot) ->
             { Link("x", ModuleA, FALSE, FALSE), Link("x", ModuleB, FALSE, FALSE),
               Link("x", DocsRoot, TRUE, FALSE), Link("x", ModuleA, FALSE, TRUE),
               Link("other", ModuleA, FALSE, FALSE) }
      [] url = SiteUrl(ModuleA) ->
             { Link("x", DocsRoot, FALSE, FALSE), Link("x", ModuleAPage, FALSE, FALSE),
               Link("x", ModuleB, FALSE, FALSE), Link("x", ModuleA, TRUE, FALSE) }
      [] OTHER -> {}

\* what a GET of a page gives: an error, a page without content, a page
FetchOutcomes == {"failed", "empty", "page"}

\* every url that was requested is marked
MarkVisited_Always(visited, url, fetched) == visited \cup {url}

\* extract_page_content: self.visited_urls.add(url) after raise_for_status
MarkVisited(visited, url, fetched) ==
    IF fetched \in {"empty", "page"} THEN visited \cup {url} ELSE visited

\* extract_page_content: None for a visited url, a failed request and a page
\* without content, else the document; requested tells whether a GET was sent
ExtractPageContent(url, visited, fetched) ==
    IF url \in visited
    THEN [requested |-> FALSE, visited |-> visited, page_data |-> None]
    ELSE [requested |-> TRUE,
          visited |-> MarkVisited(visited, url, fetched),
          page_data |-> IF fetched = "page" THEN CrawledPage(url, 1) ELSE None]

\* _find_linked_pages: the links of the same domain, with base_path in their
\* path, not visited as they are written and without fragment; cleaned of
\* their query and without duplicates
FindLinkedPages(current_url, base_path, visited) ==
    { SiteUrl(l.path) :
        l \in { k \in PageLinks(current_url) :
                  /\ k.netloc = current_url.netloc
                  /\ Contains(k.path, base_path)
                  /\ ~(~k.query /\ ~k.fragment /\ SiteUrl(k.path) \in visited)
                  /\ ~k.fragment } }

\* the GET requests logged for one call of extract_page_content
PageFetch(url, r, fetched) ==
    IF r.requested THEN <<[url |-> url, for |-> "page", outcome |-> fetched]>> ELSE <<>>

\* crawl_all_docs: the loop calls crawl_docs_path: the start page is
\* extracted; with a document, its linked pages are looked up (an error gives
\* no link); without, the path is done
CrawlDocsPath ==
    /\ cpc = "path"
    /\ path_no < Len(docs_paths)
    /\ LET docs_path == docs_paths[path_no + 1]
           start_url == SiteUrl(docs_path)
       IN  \E fetched \in FetchOutcomes, links_ok \in BOOLEAN :
              LET r == ExtractPageContent(start_url, visited_urls, fetched)
              IN  /\ visited_urls' = r.visited
                  /\ IF r.page_data # None
                     THEN /\ pages' = <<r.page_data>>
                          /\ link_queue' =
                                IF links_ok
                                THEN FindLinkedPages(start_url, docs_path, r.visited)
                                ELSE {}
                          /\ fetches' = fetches \o PageFetch(start_url, r, fetched)
                                \o <<[url |-> start_url, for |-> "links",
                                      outcome |-> IF links_ok THEN "page" ELSE "failed"]>>
                          /\ cpc' = "links"
                          /\ UNCHANGED <<all_pages, path_no>>
                     ELSE /\ pages' = <<>>
                          /\ link_queue' = {}
                          /\ fetches' = fetches \o PageFetch(start_url, r, fetched)
                          /\ all_pages' = all_pages \o <<>>
                          /\ path_no' = path_no + 1
                          /\ UNCHANGED cpc
    /\ UNCHANGED docs_paths
    /\ UNCHANGED <<chunkerVars, queryVars, suiteVars, ingestVars, apiVars, toolVars>>

\* crawl_docs_path: one pass of the loop over linked_pages, which are in no
\* particular order (list(set(links)))
CrawlLinkedPage ==
    /\ cpc = "links"
    /\ link_queue # {}
    /\ \E linked_url \in link_queue, fetched \in FetchOutcomes :
          LET r == ExtractPageContent(linked_url, visited_urls, fetched)
          IN  /\ visited_urls' = r.visited
              /\ pages' = IF r.page_data # None THEN Append(pages, r.page_data) ELSE pages
              /\ fetches' = fetches \o PageFetch(linked_url, r, fetched)
              /\ link_queue' = link_queue \ {linked_url}
    /\ UNCHANGED <<cpc, docs_paths, path_no, all_pages>>
    /\ UNCHANGED <<chunkerVars, queryVars, suiteVars, ingestVars, apiVars, toolVars>>

\* crawl_docs_path returns and crawl_all_docs extends all_pages
CrawlDocsPathReturn ==
    /\ cpc = "links"
    /\ link_queue = {}
    /\ all_pages' = all_pages \o pages
    /\ pages' = <<>>
    /\ path_no' = path_no + 1
    /\ cpc' = "path"
    /\ UNCHANGED <<docs_paths, visited_urls, link_queue, fetches>>
    /\ UNCHANGED <<chunkerVars, queryVars, suiteVars, ingestVars, apiVars, toolVars>>

\* crawl_all_docs: return all_pages
CrawlAllDocsReturn ==
    /\ cpc = "path"
    /\ path_no = Len(docs_paths)
    /\ cpc' = "done"
    /\ UNCHANGED <<docs_paths, path_no, visited_urls, pages, link_queue, all_pages,
                   fetches>>
    /\ UNCHANGED <<chunkerVars, queryVars, suiteVars, ingestVars, apiVars, toolVars>>

CrawlNext ==
    \/ CrawlDocsPath
    \/ CrawlLinkedPage
    \/ CrawlDocsPathReturn
    \/ CrawlAllDocsReturn

\* the lists of paths crawl_all_docs is given: a path may come twice, and a
\* path may lie under another
DocsPathLists ==
    UNION { [1..n -> {DocsRoot, ModuleA, ModuleB}] : n \in 0..MaxPaths }

\* DocusaurusCrawler.__init__ and the call of crawl_all_docs
InitCrawl ==
    /\ ChunkerIdle
    /\ QueryIdle
    /\ SuiteIdle
    /\ IngestIdle
    /\ ApiIdle
    /\ ToolIdle
    /\ cpc = "path"
    /\ docs_paths \in DocsPathLists
    /\ path_no = 0
    /\ visited_urls = {}
    /\ pages = <<>>
    /\ link_queue = {}
    /\ all_pages = <<>>
    /\ fetches = <<>>

SpecCrawl == InitCrawl /\ [][CrawlNext]_vars

(* rag_agent.py: the module globals read by retrieve_context_tool *)

MaxAgents == 2

MaxCalls == 3

CollectionNames == {"a", "b"}

\* cohere.Client(...) and QdrantClient(...): the client built by the n-th call
\* of RAGAgent.__init__
Client(n) == [t |-> "client", by |-> n]

\* what a call of RAGAgent.__init__ runs into: a missing credential, an error
\* of cohere.Client, an error of QdrantClient, or nothing
ConstructionOutcomes == {"no_credentials", "cohere_failed", "qdrant_failed", "ok"}

\* RAGAgent.__init__: the credentials are validated, then the globals are
\* assigned one after the other, then the instance keeps the two clients; an
\* exception leaves the globals assigned so far
RAGAgentInit ==
    /\ attempts < MaxAgents
    /\ \E collection_name \in CollectionNames, ended \in ConstructionOutcomes :
          /\ attempts' = attempts + 1
          /\ global_cohere_client' =
                IF ended \in {"qdrant_failed", "ok"}
                THEN Client(attempts + 1) ELSE global_cohere_client
          /\ global_qdrant_client' =
                IF ended = "ok" THEN Client(attempts + 1) ELSE global_qdrant_client
          /\ global_collection_name' =
                IF ended = "ok" THEN PyStr(collection_name) ELSE global_collection_name
          /\ agents' =
                IF ended = "ok"
                THEN Append(agents, [collection_name |-> PyStr(collection_name),
                                     cohere_client |-> Client(attempts + 1),
                                     qdrant_client |-> Client(attempts + 1)])
                ELSE agents
    /\ UNCHANGED <<searches, tool_returns>>
    /\ UNCHANGED <<chunkerVars, queryVars, suiteVars, ingestVars, apiVars, crawlVars>>

\* what the embedding and the search of one retrieval run into
RetrievalOutcomes == {"embed_failed", "search_failed", "empty", "hits"}

\* the tool searches the collection of the agent it runs for
ToolCollection_OfAgent(running) ==
    IF running \in DOMAIN agents
    THEN agents[running].collection_name ELSE global_collection_name

\* retrieve_context_tool: collection_name=_collection_name
ToolCollection(running) == global_collection_name

\* the string retrieve_context_tool returns
ToolReturn(ended) ==
    CASE ended \in {"embed_failed", "search_failed"} -> "Error retrieving context"
      [] ended = "empty" -> "No relevant content found in the book for this query."
      [] OTHER -> "RETRIEVED CONTEXT FROM PHYSICAL AI BOOK:"

\* retrieve_context_tool, called while the agent numbered running runs, or
\* called directly (running = 0)
RetrieveContextTool ==
    /\ Len(searches) + Len(tool_returns) < MaxCalls
    /\ \E running \in 0..Len(agents), ended \in RetrievalOutcomes :
          IF global_cohere_client = None \/ global_qdrant_client = None
          THEN /\ tool_returns' =
                     Append(tool_returns,
                            [constructed |-> Len(agents), attempts |-> attempts,
                             return |-> "Error: Retrieval system not initialized"])
               /\ UNCHANGED searches
          ELSE /\ searches' =
                     IF ended = "embed_failed" THEN searches
                     ELSE Append(searches,
                                 [by |-> "retrieve_context_tool", running |-> running,
                                  constructed |-> Len(agents),
                                  client |-> global_qdrant_client,
                                  collection_name |-> ToolCollection(running)])
               /\ tool_returns' =
                     Append(tool_returns,
                            [constructed |-> Len(agents), attempts |-> attempts,
                             return |-> ToolReturn(ended)])
    /\ UNCHANGED <<global_cohere_client, global_qdrant_client, global_collection_name,
                   agents, attempts>>
    /\ UNCHANGED <<chunkerVars, queryVars, suiteVars, ingestVars, apiVars, crawlVars>>

\* RAGAgent.retrieve_context of the agent numbered running: self.qdrant_client
\* and self.collection_name
AgentRetrieveContext ==
    /\ Len(searches) + Len(tool_returns) < MaxCalls
    /\ \E running \in 1..Len(agents), ended \in RetrievalOutcomes :
          searches' =
             IF ended = "embed_failed" THEN searches
             ELSE Append(searches,
                         [by |-> "retrieve_context", running |-> running,
                          constructed |-> Len(agents),
                          client |-> agents[running].qdrant_client,
                          collection_name |-> agents[running].collection_name])
    /\ UNCHANGED <<global_cohere_client, global_qdrant_client, global_collection_name,
                   agents, attempts, tool_returns>>
    /\ UNCHANGED <<chunkerVars, queryVars, suiteVars, ingestVars, apiVars, crawlVars>>

ToolNext ==
    \/ RAGAgentInit
    \/ RetrieveContextTool
    \/ AgentRetrieveContext

\* the module as imported: lines 42-44
InitTool ==
    /\ ChunkerIdle
    /\ QueryIdle
    /\ SuiteIdle
    /\ IngestIdle
    /\ ApiIdle
    /\ CrawlIdle
    /\ ToolIdle

SpecTool == InitTool /\ [][ToolNext]_vars

----------------------------------------------------------------------------
(* Helpers of the properties *)

\* number of whitespace-delimited words of a chunk
WordCount(chunk) == Len(SplitWords(chunk.text))

\* the last k words of a word list
LastWords(ws, k) == SubSeq(ws, Max(Len(ws) - k, 0) + 1, Len(ws))

\* the first k words of a word list
FirstWords(ws, k) == SubSeq(ws, 1, Min(k, Len(ws)))

\* the elements of a finite set of numbers in increasing order
Ascending(S) ==
    CHOOSE f \in [1..Cardinality(S) -> S] :
        \A i, j \in 1..Cardinality(S) : i < j => f[i] < f[j]

\* the heading lines among the first n lines that no later heading line of the
\* same or a shallower level (up to line n) has closed, outermost first
OpenHeadingLines(ls, n) ==
    Ascending({ j \in 1..n :
                  /\ IsHeading(ls[j])
                  /\ \A k \in (j + 1)..n :
                        IsHeading(ls[k])
                            => HeadingLevel(ls[k][1]) > HeadingLevel(ls[j][1]) })

\* the lines that start a section: every heading line, and the first line
SectionStarts(ls) ==
    Ascending({ j \in 1..Len(ls) : j = 1 \/ IsHeading(ls[j]) })

\* the heading_hierarchy the section starting at line j is to carry
ExpectedHierarchy(ls, j, title) ==
    LET open == OpenHeadingLines(ls, j)
        texts == [i \in 1..Len(open) |-> Tail(ls[open[i]])]
    IN  IF texts = <<>> THEN title ELSE JoinWith(texts, ">")

\* a call of _chunk_section for a section longer than chunk_size has returned
\* under a configuration with chunk_overlap < chunk_size
WindowedSectionReturned ==
    /\ pc \in {"chunk", "done"}
    /\ section_no >= 1
    /\ Len(words) > chunk_size
    /\ chunk_overlap < chunk_size

\* a result that meets every condition validate_metadata checks
WellFormedResult(r) ==
    /\ \A f \in {"text", "url", "title", "chunk_id"} : r[f].t = "str" /\ r[f].v # <<>>
    /\ \E scheme \in {Http, Https} :
          /\ Len(r.url.v) >= Len(scheme)
          /\ \A c \in 1..Len(scheme) : r.url.v[c] = scheme[c]
    /\ (r.chunk_index # None /\ r.total_chunks # None) =>
          (0 <= r.chunk_index.v /\ r.chunk_index.v < r.total_chunks.v)
    /\ r.score.t = "float" /\ 0 <= r.score.v /\ r.score.v <= 10

\* a result whose only defect is a chunk_index outside 0..total_chunks-1
OnlyIndexOutOfRange(r) ==
    /\ r.chunk_index # None
    /\ r.total_chunks # None
    /\ ~(0 <= r.chunk_index.v /\ r.chunk_index.v < r.total_chunks.v)
    /\ WellFormedResult([r EXCEPT !.chunk_index = None])

\* the markup artifacts and the whitespace defects of a text
MarkupOrWhitespaceDefect(text) ==
    \/ \E i \in 1..Len(text) : text[i] \in {"<", ">"}
    \/ \E p \in {<<"&", "l", "t", ";">>, <<"&", "g", "t", ";">>,
                  <<"c", "l", "a", "s", "s", "=">>, <<"i", "d", "=">>,
                  <<"h", "r", "e", "f", "=">>, <<"s", "r", "c", "=">>} :
          \E i \in 1..Len(text) :
              i + Len(p) - 1 <= Len(text) /\ SubSeq(text, i, i + Len(p) - 1) = p
    \/ \E i \in 1..(Len(text) - 2) : \A j \in 0..2 : text[i + j] = " "
    \/ \E i \in 1..(Len(text) - 2) : \A j \in 0..2 : text[i + j] = "\n"
    \/ \A i \in 1..Len(text) : text[i] \in {" ", "\n", "\t", "\r"}

\* the text has the phrase in it, spelled exactly so
HasPhrase(text, p) ==
    \E i \in 1..Len(text) :
        i + Len(p) - 1 <= Len(text) /\ SubSeq(text, i, i + Len(p) - 1) = p

\* the UI phrases as the pages of the site spell them
SitePhrases ==
    { <<"N", "e", "x", "t", " ", Raquo>>,
      <<Laquo, " ", "P", "r", "e", "v", "i", "o", "u", "s">>,
      <<"E", "d", "i", "t", " ", "t", "h", "i", "s", " ", "p", "a", "g", "e">>,
      <<"T", "a", "b", "l", "e", " ", "o", "f", " ", "C", "o", "n", "t", "e", "n", "t", "s">>,
      <<"S", "k", "i", "p", " ", "t", "o", " ", "c", "o", "n", "t", "e", "n", "t">> }

\* the UI phrases in lower case
LowerCasePhrases ==
    { <<"n", "e", "x", "t", " ", "p", "a", "g", "e">>,
      <<"e", "d", "i", "t", " ", "t", "h", "i", "s", " ", "p", "a", "g", "e">> }

\* the positions of the results that have an entry in the issues of
\* validate_content_quality
FlaggedPositions == { quality_results.issues[k].chunk_index + 1 :
                        k \in 1..Len(quality_results.issues) }

----------------------------------------------------------------------------
(* Properties *)

\* C1: the chunks chunk_document returns carry chunk_index 0, 1, ..., N-1 in
\* list order, and every one of them carries total_chunks = N, N the number of
\* chunks returned.
C1_IndicesExact ==
    outcome = "returned" =>
        \A i \in 1..Len(chunks) :
            /\ chunks[i].chunk_index = i - 1
            /\ chunks[i].total_chunks = Len(chunks)

C1_Witness == outcome = "returned" /\ Len(chunks) >= 3

\* C2: chunk_document on a document whose content is the empty string returns
\* an empty list of chunks.
C2_EmptyContentNoChunk ==
    (outcome = "returned" /\ document["content"] = <<>>) => chunks = <<>>

\* C3: for a section with more than chunk_size words (chunk_overlap <
\* chunk_size), the last chunk_overlap words of every emitted chunk equal the
\* first chunk_overlap words of the chunk emitted after it.
C3_OverlapShared ==
    WindowedSectionReturned =>
        \A i \in 1..(Len(section_chunks) - 1) :
            LastWords(SplitWords(section_chunks[i].text), chunk_overlap)
                = FirstWords(SplitWords(section_chunks[i + 1].text), chunk_overlap)

\* C4: for a section with more than chunk_size words (chunk_overlap <
\* chunk_size), the loop ends with the first window whose end reaches the
\* number of words, and every window after which the loop goes on has exactly
\* chunk_size words.
C4_StopsAtSectionEnd ==
    [][(pc = "window" /\ chunk_overlap < chunk_size) =>
          /\ WindowEnd(start, chunk_size, Len(words)) = Len(words) => pc' # "window"
          /\ pc' = "window" =>
                WordCount(section_chunks'[Len(section_chunks')]) = chunk_size]_vars

\* C5: under a configuration with chunk_overlap >= chunk_size no chunking work
\* starts: the call does not get past its start, no chunk is produced and the
\* windowing loop is not entered.
C5_InvalidConfigurationFailsFast ==
    chunk_overlap >= chunk_size =>
        /\ pc \in {"constructed", "raised"}
        /\ chunks = <<>>
        /\ section_chunks = <<>>

\* C6 as claimed: a document with non-empty content of fewer than chunk_size
\* words gives exactly one chunk, whatever heading lines it contains.
C6_ExactlyOneChunk ==
    (/\ outcome = "returned"
     /\ document["content"] # <<>>
     /\ Len(SplitWords(document["content"])) < chunk_size)
        => Len(chunks) = 1

\* C6 as amended: a document with non-empty content of fewer than chunk_size
\* words gives one chunk per section: one chunk, and one more for every
\* heading line after the first line.
C6_OneChunkPerSection ==
    (/\ outcome = "returned"
     /\ document["content"] # <<>>
     /\ Len(SplitWords(document["content"])) < chunk_size)
        => LET ls == SplitLines(document["content"])
           IN  Len(chunks) = 1 + Cardinality({ j \in 2..Len(ls) : IsHeading(ls[j]) })

C6_Witness ==
    /\ outcome = "returned"
    /\ document["content"] # <<>>
    /\ Len(SplitWords(document["content"])) < chunk_size
    /\ Len(chunks) = 2

\* C7: the heading stack has strictly increasing levels from outermost to
\* innermost and holds exactly the headings still open after the lines scanned
\* so far; every chunk of a section carries the texts of the headings open at
\* the start of the section joined by " > ", or the title when none is open.
C7_HeadingHierarchy ==
    /\ \A i, j \in 1..Len(heading_stack) :
          i < j => heading_stack[i].level < heading_stack[j].level
    /\ pc \in {"split", "chunk", "window", "done"} =>
          LET open == OpenHeadingLines(lines, line_no)
          IN  heading_stack =
                 [i \in 1..Len(open) |->
                     [level |-> HeadingLevel(lines[open[i]][1]),
                      text |-> Tail(lines[open[i]])]]
    /\ (pc \in {"chunk", "window", "done"}
            /\ (pc = "window" \/ section_no >= 1)) =>
          LET k == IF pc = "window" THEN section_no + 1 ELSE section_no
              first == SectionStarts(lines)[k]
          IN  \A i \in 1..Len(section_chunks) :
                 section_chunks[i].heading_hierarchy
                    = ExpectedHierarchy(lines, first, document["title"])

C7_Witness ==
    /\ pc = "chunk"
    /\ section_no >= 1
    /\ Len(section_chunks) >= 2
    /\ Len(sections[section_no].headings) >= 2
    /\ Len(heading_stack) < Len(sections[section_no].headings)

\* C8 as claimed: "# Intro" followed by 1000 words, chunk_size 800 and
\* chunk_overlap 100, gives 2 chunks of 800 and 300 words, both with
\* heading_hierarchy "Intro" and total_chunks 2.
C8_Example300 ==
    (outcome = "returned" /\ document["content"] = IntroPage(1000)) =>
        /\ Len(chunks) = 2
        /\ WordCount(chunks[1]) = 800
        /\ WordCount(chunks[2]) = 300
        /\ \A i \in 1..2 :
              /\ chunks[i].heading_hierarchy = <<"Intro">>
              /\ chunks[i].total_chunks = 2

\* C8 as amended: the same document gives 2 chunks of 800 and 302 words (the
\* two tokens of the heading line are words of the section), both with
\* heading_hierarchy "Intro" and total_chunks 2.
C8_Example302 ==
    (outcome = "returned" /\ document["content"] = IntroPage(1000)) =>
        /\ Len(chunks) = 2
        /\ WordCount(chunks[1]) = 800
        /\ SubSeq(chunks[1].text, 1, 2) = <<"#", "Intro">>
        /\ WordCount(chunks[2]) = 302
        /\ \A i \in 1..2 :
              /\ chunks[i].heading_hierarchy = <<"Intro">>
              /\ chunks[i].total_chunks = 2

C8_Witness ==
    /\ outcome = "returned"
    /\ document["content"] = IntroPage(1000)
    /\ chunk_size = 800
    /\ chunk_overlap = 100
    /\ Len(chunks) = 2

\* C10: validate_metadata counts a result as passed exactly when text, url,
\* title and chunk_id are non-empty, url starts with http:// or https://,
\* 0 <= chunk_index < total_chunks when both are present, and
\* 0.0 <= score <= 1.0; every other result is counted as failed and listed.
C10_PassedIffWellFormed ==
    rpc = "validated" =>
        LET ok(r) ==
                /\ \A f \in {"text", "url", "title", "chunk_id"} :
                      r[f].t = "str" /\ r[f].v # <<>>
                /\ \E scheme \in {<<"h", "t", "t", "p", ":", "/", "/">>,
                                   <<"h", "t", "t", "p", "s", ":", "/", "/">>} :
                      /\ Len(r.url.v) >= Len(scheme)
                      /\ \A c \in 1..Len(scheme) : r.url.v[c] = scheme[c]
                /\ (r.chunk_index # None /\ r.total_chunks # None) =>
                      (0 <= r.chunk_index.v /\ r.chunk_index.v < r.total_chunks.v)
                /\ 0 <= r.score.v /\ r.score.v <= 10
            good == { i \in 1..Len(results) : ok(results[i]) }
            bad == (1..Len(results)) \ good
        IN  /\ validation_results.passed = Cardinality(good)
            /\ validation_results.failed = Cardinality(bad)
            /\ { validation_results.issues[k].chunk_index + 1 :
                    k \in 1..Len(validation_results.issues) } = bad

C10_Witness ==
    /\ rpc = "validated"
    /\ validation_results.passed >= 1
    /\ validation_results.failed >= 1

\* C9: chunk_document on a document that lacks url, title or content ends in
\* the missing-key error and returns no chunk; a document that lacks only
\* module is chunked with module None on every chunk.
C9_MissingField ==
    pc # "constructed" =>
        IF {"content", "url", "title"} \subseteq DOMAIN document
        THEN /\ pc # "raised"
             /\ outcome # "KeyError"
             /\ "module" \notin DOMAIN document =>
                   \A i \in 1..Len(chunks) : chunks[i].module = None
        ELSE /\ pc = "raised"
             /\ outcome = "KeyError"
             /\ chunks = <<>>

C9_Witness ==
    /\ outcome = "KeyError"
    /\ "module" \in DOMAIN document
    /\ "content" \in DOMAIN document

\* the other case of C9: a document without module, chunked into several chunks
C9_WitnessNoModule ==
    /\ outcome = "returned"
    /\ "module" \notin DOMAIN document
    /\ Len(chunks) >= 2

\* C11: validate_metadata never ends in an error because of a defective
\* result: whatever the score, chunk_index, total_chunks or url of a result
\* (missing, None, of another type), the only error a query run on such
\* results ends in is the one of the search, and validate_metadata returns
\* its aggregate of all the results.
C11_NeverRaises ==
    /\ rpc = "raised" => error_cause = SearchError
    /\ query_outcome \notin {"TypeError", "AttributeError"}
    /\ rpc \in {"validated", "checked"} =>
          validation_results.total_chunks = Len(results)

\* C12: validate_metadata on well-formed results reports failed = 0 and no
\* issue; when exactly one result differs from a well-formed one by a
\* chunk_index out of range (as chunk_index=5, total_chunks=3), it reports
\* failed = 1 and one entry in issues, for that result, holding one issue.
C12_OneIndexDefect ==
    rpc = "validated" =>
        /\ (\A i \in 1..Len(results) : WellFormedResult(results[i])) =>
              /\ validation_results.failed = 0
              /\ validation_results.issues = <<>>
        /\ \A k \in 1..Len(results) :
              ( /\ OnlyIndexOutOfRange(results[k])
                /\ \A i \in 1..Len(results) : i # k => WellFormedResult(results[i]) ) =>
                    /\ validation_results.failed = 1
                    /\ Len(validation_results.issues) = 1
                    /\ validation_results.issues[1].chunk_index = k - 1
                    /\ Len(validation_results.issues[1].issues) = 1
                    /\ validation_results.issues[1].issues[1].field = "chunk_index"

C12_Witness ==
    /\ rpc = "validated"
    /\ Len(results) = 2
    /\ WellFormedResult(results[1])
    /\ results[2].chunk_index = PyInt(5)
    /\ results[2].total_chunks = PyInt(3)
    /\ validation_results.failed = 1
    /\ validation_results.passed = 1

\* C13: what validate_metadata returns has passed + failed = total_chunks =
\* the number of results, and one issues entry per failed result, in the order
\* of the results, each with at least one issue; what validate_content_quality
\* returns has the same with clean + has_issues = total_chunks.
C13_AggregatesConsistent ==
    /\ rpc \in {"validated", "checked"} =>
          LET vr == validation_results
          IN  /\ vr.total_chunks = Len(results)
              /\ vr.passed + vr.failed = vr.total_chunks
              /\ Len(vr.issues) = vr.failed
              /\ \A k \in 1..Len(vr.issues) :
                    /\ vr.issues[k].chunk_index \in 0..(Len(results) - 1)
                    /\ vr.issues[k].issues # <<>>
                    /\ \A m \in 1..(k - 1) :
                          vr.issues[m].chunk_index < vr.issues[k].chunk_index
    /\ rpc = "checked" =>
          LET qr == quality_results
          IN  /\ qr.total_chunks = Len(results)
              /\ qr.clean + qr.has_issues = qr.total_chunks
              /\ Len(qr.issues) = qr.has_issues
              /\ \A k \in 1..Len(qr.issues) :
                    /\ qr.issues[k].chunk_index \in 0..(Len(results) - 1)
                    /\ qr.issues[k].issues # <<>>
                    /\ \A m \in 1..(k - 1) :
                          qr.issues[m].chunk_index < qr.issues[k].chunk_index

C13_Witness ==
    /\ rpc = "checked"
    /\ Len(results) = 2
    /\ validation_results.failed = 2
    /\ quality_results.has_issues = 2

\* C14 as stated: validate_content_quality counts a result in has_issues
\* exactly when its text has an angle bracket, &lt; or &gt;, class=, id=,
\* href= or src=, a UI phrase, "next page" and "edit this page" among them,
\* three consecutive spaces or newlines, or nothing but whitespace.
C14_FlagsNamedPhrases ==
    rpc = "checked" =>
        /\ \A i \in 1..Len(results) :
              i \in FlaggedPositions <=>
                  \/ MarkupOrWhitespaceDefect(results[i].text.v)
                  \/ \E p \in SitePhrases \cup LowerCasePhrases :
                        HasPhrase(results[i].text.v, p)
        /\ quality_results.has_issues = Cardinality(FlaggedPositions)
        /\ quality_results.clean = Len(results) - Cardinality(FlaggedPositions)

\* C14, amended: the UI phrases that count are 'Next »', '« Previous',
\* 'Edit this page', 'Table of Contents' and 'Skip to content', spelled
\* exactly so; a text with "next page" or "edit this page" and no other
\* defect is counted clean.
C14_FlagsSitePhrases ==
    rpc = "checked" =>
        /\ \A i \in 1..Len(results) :
              i \in FlaggedPositions <=>
                  \/ MarkupOrWhitespaceDefect(results[i].text.v)
                  \/ \E p \in SitePhrases : HasPhrase(results[i].text.v, p)
        /\ quality_results.has_issues = Cardinality(FlaggedPositions)
        /\ quality_results.clean = Len(results) - Cardinality(FlaggedPositions)

C14_Witness ==
    /\ rpc = "checked"
    /\ Len(results) = 2
    /\ results[1].text.v \in LowerCasePhrases
    /\ HasPhrase(results[2].text.v, <<"E", "d", "i", "t", " ", "t", "h", "i", "s">>)
    /\ quality_results.clean = 1
    /\ quality_results.has_issues = 1
    /\ quality_results.issues[1].chunk_index = 1

\* C17: when the embedding of the query or the search of the store fails,
\* the retrieval ends in an error that carries the error of the failed call;
\* it returns results only when both calls succeeded, and a retrieval that
\* has not ended can always go on.
C17_FailurePropagates ==
    /\ rpc = "retrieved" => embed_ok /\ search_ok
    /\ rpc = "raised" =>
          /\ error_cause = (IF ~embed_ok THEN EmbedError ELSE SearchError)
          /\ ~(embed_ok /\ search_ok)
          /\ results = <<>>
    /\ rpc \in {"embed", "query"} => ENABLED SearchNext

C17_Witness ==
    /\ rpc = "raised"
    /\ via = "retrieve"
    /\ embed_ok
    /\ ~search_ok
    /\ query_outcome = "Exception: Failed to retrieve chunks"
    /\ error_cause = SearchError
    /\ Len(collection) >= 1

\* C18: a retrieval with top_k >= 1 returns at most top_k results, one per
\* point the store finds, best score first; with a non-empty module_filter
\* these are the first top_k points of that module and every result has
\* module = module_filter; without module_filter (None or the empty string)
\* they are the first top_k points of the collection, of any module.
C18_TopKOfModule ==
    rpc = "retrieved" =>
        LET filtered == module_filter # None /\ module_filter.v # <<>>
            matching ==
                { i \in 1..Len(collection) :
                    filtered =>
                        /\ "module" \in DOMAIN collection[i].payload
                        /\ collection[i].payload.module = module_filter }
            found == Ascending(matching)
        IN  /\ Len(results) <= top_k
            /\ Len(results) = Min(top_k, Cardinality(matching))
            /\ \A i \in 1..Len(results) :
                  /\ results[i].score = collection[found[i]].score
                  /\ results[i].module =
                        PyGet(collection[found[i]].payload, "module", None)
                  /\ filtered => results[i].module = module_filter
            /\ \A i \in 1..(Len(results) - 1) :
                  results[i].score.v >= results[i + 1].score.v

C18_Witness ==
    /\ rpc = "retrieved"
    /\ module_filter = PyStr(Module01)
    /\ top_k = 2
    /\ Len(collection) = 3
    /\ "module" \in DOMAIN collection[1].payload
    /\ collection[1].payload.module = PyStr(Module02)
    /\ Len(results) = 2
    /\ results[1].score.v > results[2].score.v

\* C15: run_validation_suite counts a test query as passed exactly when the
\* retrieval returned at least one result, the score of the first result is
\* at least the min_score of the query, and one of the expected keywords is,
\* letter case aside, a substring of the text of the first result; every
\* other query is counted as failed.
C15_PassedIffThreeChecks ==
    spc \in {"running", "returned"} =>
        LET SameLetter(a, b) == LowerChar(a) = LowerChar(b)
            Within(text, kw) ==
                \E i \in 1..(Len(text) - Len(kw) + 1) :
                    \A j \in 1..Len(kw) : SameLetter(text[i + j - 1], kw[j])
            ThreeChecks(k) ==
                /\ replies[k].embed_ok
                /\ replies[k].search_ok
                /\ Len(replies[k].collection) >= 1
                /\ 10 * replies[k].collection[1].score.v >= TestQueries[k].min_score
                /\ replies[k].collection[1].payload.text.t = "str"
                /\ \E n \in 1..Len(TestQueries[k].expected_keywords) :
                      Within(replies[k].collection[1].payload.text.v,
                             TestQueries[k].expected_keywords[n])
            run == 1..test_no
        IN  /\ \A k \in run : suite_results.query_results[k].passed <=> ThreeChecks(k)
            /\ suite_results.passed = Cardinality({ k \in run : ThreeChecks(k) })
            /\ suite_results.failed = Cardinality({ k \in run : ~ThreeChecks(k) })

C15_Witness ==
    /\ spc = "returned"
    /\ suite_results.passed = 2
    /\ suite_results.failed = 1
    /\ "issues" \in DOMAIN suite_results.query_results[3]
    /\ suite_results.query_results[3].issues = <<"No expected keywords found in top result">>
    /\ suite_results.query_results[2].passed
    /\ replies[2].collection[1].score.v = 6

\* C16: run_validation_suite ends in no error: whichever embeddings and
\* searches fail, the test queries are run one after the other, each gets
\* one entry in query_results, a query whose embedding or search failed is
\* failed with that error, the later queries are run all the same, and at
\* the return passed + failed = total_queries.
C16_SuiteAlwaysReturns ==
    /\ spc \in {"running", "returned"}
    /\ test_no <= Len(TestQueries)
    /\ Len(suite_results.query_results) = test_no
    /\ suite_results.passed + suite_results.failed = test_no
    /\ suite_results.total_queries = Len(TestQueries)
    /\ spc = "returned" => test_no = suite_results.total_queries
    /\ \A k \in 1..test_no :
          LET entry == suite_results.query_results[k]
          IN  /\ entry.query_id = TestQueries[k].id
              /\ ~replies[k].embed_ok =>
                    /\ ~entry.passed
                    /\ "error" \in DOMAIN entry
                    /\ entry.error.cause = EmbedError
              /\ replies[k].embed_ok /\ ~replies[k].search_ok =>
                    /\ ~entry.passed
                    /\ "error" \in DOMAIN entry
                    /\ entry.error.cause = SearchError
              /\ replies[k].embed_ok /\ replies[k].search_ok
                    /\ replies[k].collection # <<>>
                    /\ replies[k].collection[1].payload.text.t = "str" =>
                    /\ "error" \notin DOMAIN entry
                    /\ entry.chunks_retrieved = Len(replies[k].collection)

C16_Witness ==
    /\ spc = "returned"
    /\ ~replies[1].embed_ok
    /\ suite_results.query_results[2].passed
    /\ replies[3].embed_ok
    /\ ~replies[3].search_ok
    /\ suite_results.passed = 1
    /\ suite_results.failed = 2

\* C19: no chunk without an embedding is stored: every chunk embed_chunks
\* returns has an embedding that is not None; insert_chunks builds one point
\* for each chunk it is given that has an embedding that is not None, with
\* that embedding as its vector, and no other point; only these points are
\* sent to the store and held by it.
C19_OnlyEmbeddedStored ==
    LET embedded == { i \in 1..Len(to_insert) :
                        /\ "embedding" \in DOMAIN to_insert[i]
                        /\ to_insert[i]["embedding"] # None }
        source == Ascending(embedded)
        built == { points[k] : k \in 1..Len(points) }
    IN  /\ \A i \in 1..Len(valid_chunks) :
              /\ "embedding" \in DOMAIN valid_chunks[i]
              /\ valid_chunks[i]["embedding"] # None
        /\ ipc \in {"upload", "inserted"} =>
              /\ Len(points) = Cardinality(embedded)
              /\ \A k \in 1..Len(points) :
                    /\ points[k].vector = to_insert[source[k]]["embedding"]
                    /\ points[k].payload.chunk_id = to_insert[source[k]]["chunk_id"]
                    /\ points[k].vector # None
              /\ \A j, k \in 1..Len(points) : j # k => points[j].id # points[k].id
        /\ \A c \in 1..Len(upsert_calls) :
              \A n \in 1..Len(upsert_calls[c].batch) : upsert_calls[c].batch[n] \in built
        /\ \A n \in 1..Len(stored) : stored[n] \in built /\ stored[n].vector # None

C19_Witness ==
    /\ ipc = "inserted"
    /\ Len(in_chunks) = 3
    /\ \E i \in 1..Len(in_chunks) : in_chunks[i]["embedding"] = None
    /\ Len(valid_chunks) = 2
    /\ Len(stored) = 2

\* C20: embed_chunks and insert_chunks send their batches one after the
\* other in the order of the input, each batch once: the k-th call is for the
\* k-th batch, whether earlier calls failed or not, and when the loop has
\* ended every batch has been sent once.
C20_EachBatchOnce ==
    /\ \A k \in 1..Len(embed_calls) :
          /\ embed_calls[k].start = (k - 1) * embed_batch_size
          /\ embed_calls[k].start < Len(in_chunks)
          /\ embed_calls[k].texts =
                [i \in 1..Min(embed_batch_size, Len(in_chunks) - embed_calls[k].start) |->
                    in_chunks[embed_calls[k].start + i].text]
    /\ ipc = "embed" => batch_start = Len(embed_calls) * embed_batch_size
    /\ ipc \notin {"idle", "embed"} =>
          Len(embed_calls) = (Len(in_chunks) + embed_batch_size - 1) \div embed_batch_size
    /\ \A k \in 1..Len(upsert_calls) :
          /\ upsert_calls[k].start = (k - 1) * insert_batch_size
          /\ upsert_calls[k].start < Len(points)
          /\ upsert_calls[k].batch =
                [i \in 1..Min(insert_batch_size, Len(points) - upsert_calls[k].start) |->
                    points[upsert_calls[k].start + i]]
    /\ ipc = "upload" => upload_start = Len(upsert_calls) * insert_batch_size
    /\ ipc = "inserted" =>
          Len(upsert_calls) = (Len(points) + insert_batch_size - 1) \div insert_batch_size

C20_Witness ==
    /\ ipc = "inserted"
    /\ Len(embed_calls) = 3
    /\ ~embed_calls[1].ok
    /\ embed_calls[2].ok
    /\ embed_calls[3].ok
    /\ Len(upsert_calls) = 2
    /\ ~upsert_calls[1].ok
    /\ upsert_calls[2].ok
    /\ Len(stored) = 1

\* the run has ended
RunEnded == ipc \in {"completed", "stopped", "raised"}

\* every call of client.embed of the run failed
EveryEmbedBatchFailed ==
    /\ embed_calls # <<>>
    /\ \A k \in 1..Len(embed_calls) : ~embed_calls[k].ok

\* every call of client.upsert of the run failed
EveryUpsertBatchFailed ==
    /\ upsert_calls # <<>>
    /\ \A k \in 1..Len(upsert_calls) : ~upsert_calls[k].ok

\* C21: a run of run_ingestion_pipeline in which every embedding batch
\* failed, or every upsert batch failed, does not end in the normal return of
\* a successful run: its caller sees a failure.
C21_FailureReported ==
    (RunEnded /\ (EveryEmbedBatchFailed \/ EveryUpsertBatchFailed))
        => ingest_outcome # "returned"

\* every batch of the chunks has been sent to the embedding service
AllBatchesAttempted ==
    Len(embed_calls) = (Len(in_chunks) + embed_batch_size - 1) \div embed_batch_size

\* the operations of the run that create, delete or write into the collection
StoreWrites ==
    { i \in 1..Len(store_ops) :
        store_ops[i].op \in {"create_collection", "delete_collection", "upsert"} }

\* C22: in every run of run_ingestion_pipeline the steps are logged and done
\* in the order crawl, chunk, embed, store; no operation is sent to the store
\* before every embedding batch has been attempted; a run in which the crawl
\* gives no document, or no chunk gets an embedding, returns without any
\* operation on the store, and leaves the collection as it was, whatever
\* recreate_collection is.
C22_StagesInOrder ==
    /\ [](/\ \E k \in 0..5 : steps = [i \in 1..k |-> i]
          /\ ipc = "crawl" => steps = <<>>
          /\ ipc \in {"embed", "embedded"} => steps = <<1, 2, 3>>
          /\ store_ops # <<>> =>
                /\ Len(steps) >= 4
                /\ documents # <<>>
                /\ in_chunks # <<>>
                /\ AllBatchesAttempted
                /\ valid_chunks # <<>>
                /\ ipc \notin {"crawl", "chunk", "embed", "embedded", "stopped"}
          /\ (RunEnded /\ (documents = <<>> \/ in_chunks = <<>> \/ valid_chunks = <<>>)) =>
                /\ ipc = "stopped"
                /\ ingest_outcome = "returned"
                /\ store_ops = <<>>
          /\ ipc = "stopped" => StoreWrites = {})
    /\ [][/\ Len(store_ops') <= Len(store_ops) =>
                (stored' = stored /\ collection_exists' = collection_exists)
          /\ embed_calls' # embed_calls => store_ops' = <<>>]_vars

C22_Witness ==
    /\ run_no = 2
    /\ ipc = "stopped"
    /\ recreate_collection
    /\ collection_exists
    /\ Len(stored) = 2
    /\ EveryEmbedBatchFailed
    /\ Len(embed_calls) = 2

\* the payloads of the points the collection holds
StoredPayloads == { stored[n].payload : n \in 1..Len(stored) }

\* the points of the collection that have the payload pl
PointsOf(pl) == { n \in 1..Len(stored) : stored[n].payload = pl }

\* every embedding batch and every store operation of the run succeeded
RunSucceeded ==
    /\ ipc = "completed"
    /\ \A k \in 1..Len(embed_calls) : embed_calls[k].ok
    /\ \A k \in 1..Len(upsert_calls) : upsert_calls[k].ok

\* C30: insert_chunks gives every point a new id, whatever its chunk_id, and
\* an upsert adds its points to those the collection holds: no two points of
\* the collection have the same id, a run that succeeds on an existing
\* collection with recreate false leaves the earlier points in place and adds
\* one point per chunk (so the same chunks inserted twice are held twice, with
\* identical payloads), and a run that succeeds with recreate true leaves only
\* its own points.
C30_NotIdempotent ==
    /\ [](/\ \A j, k \in 1..Len(stored) : j # k => stored[j].id # stored[k].id
          /\ \A j, k \in 1..Len(points) : j # k => points[j].id # points[k].id
          /\ RunSucceeded =>
                /\ Len(points) = Len(in_chunks)
                /\ \A k \in 1..Len(points) :
                      /\ points[k].payload.chunk_id = in_chunks[k]["chunk_id"]
                      /\ stored[Len(stored) - Len(points) + k] = points[k]
                /\ recreate_collection => stored = points)
    /\ [][/\ upsert_calls' # upsert_calls /\ upsert_calls' # <<>> =>
                \E k \in 0..Len(points) :
                    stored' = stored \o SubSeq(points, upload_start + 1, upload_start + k)
          /\ (stored' # stored /\ Len(stored') < Len(stored)) =>
                (recreate_collection /\ stored' = <<>> /\ ipc = "embedded")]_vars

C30_Witness ==
    /\ run_no = 2
    /\ RunSucceeded
    /\ ~recreate_collection
    /\ Len(points) = 3
    /\ Len(stored) = 6
    /\ \A k \in 1..3 :
          /\ stored[k].payload = stored[k + 3].payload
          /\ stored[k].vector = stored[k + 3].vector
          /\ stored[k].id # stored[k + 3].id
    /\ \A pl \in StoredPayloads : Cardinality(PointsOf(pl)) = 2

\* the responses given to POST /api/query
QueryResponses == SelectSeq(responses, LAMBDA r : r.path = "/api/query")

\* the length of the query of a posted body, -1 when it has none
QueryLength(body) == IF "query" \in DOMAIN body THEN Len(body["query"].v) ELSE -1

\* C23: POST /api/query calls the agent only when the agent is initialized
\* and the query has between 1 and 1000 characters: a body whose query is
\* empty, over-long or missing is answered 422 and a valid request made while
\* the agent is None is answered 503, both without a call of the agent; a
\* call of the agent that raises is answered 500, one that returns 200. The
\* body is checked first: an invalid body is answered 422 also while the
\* agent is None.
C23_AgentCalledOnlyWhenReady ==
    LET answered == QueryResponses
        served == SelectSeq(answered, LAMBDA r : r.status \in {200, 500})
    IN  /\ \A i \in 1..Len(answered) :
              LET n == QueryLength(answered[i].body)
              IN  /\ answered[i].status \in {200, 422, 500, 503}
                  /\ answered[i].status = 422 <=> (n < 1 \/ n > 1000)
                  /\ answered[i].status = 503 <=> (n >= 1 /\ n <= 1000 /\ agent = None)
        /\ Len(agent_calls) = Len(served)
        /\ \A k \in 1..Len(served) :
              /\ agent_calls[k].user_query = served[k].body["query"].v
              /\ agent_calls[k].ok <=> served[k].status = 200
        /\ agent_calls # <<>> => agent # None

C23_Witness ==
    /\ agent # None
    /\ Len(responses) = 3
    /\ responses[1].path = "/api/query"
    /\ responses[1].status = 422
    /\ QueryLength(responses[1].body) = 0
    /\ responses[2].path = "/api/query"
    /\ responses[2].status = 500
    /\ QueryLength(responses[2].body) = 1000
    /\ responses[3].path = "/api/query"
    /\ responses[3].status = 200
    /\ Len(agent_calls) = 2

WindowOffsets(k, n) ==
    { j \in 0..(n - 1) :
        /\ j >= k * (chunk_size - chunk_overlap)
        /\ j < Min(k * (chunk_size - chunk_overlap) + chunk_size, n) }

\* C25: for a section of n > chunk_size words and 0 <= chunk_overlap <
\* chunk_size, chunk k (k = 0, 1, ...) of _chunk_section is made of the words
\* at the offsets k*(chunk_size - chunk_overlap) up to, and without,
\* min(k*(chunk_size - chunk_overlap) + chunk_size, n), in their order, and
\* when the section is done every word of it is in some chunk.
C25_WindowsAtOffsets ==
    LET n == Len(words)
        step == chunk_size - chunk_overlap
        emitted == pc = "window" \/ (pc \in {"chunk", "done"} /\ section_no >= 1)
    IN  (emitted /\ n > chunk_size /\ chunk_overlap < chunk_size) =>
            /\ \A k \in 0..(Len(section_chunks) - 1) :
                  /\ k * step < n
                  /\ SplitWords(section_chunks[k + 1].text) =
                        SubSeq(words, k * step + 1, Min(k * step + chunk_size, n))
                  /\ { i \in 1..n : \E m \in 1..Len(section_chunks[k + 1].text) :
                                       section_chunks[k + 1].text[m] = words[i] } =
                        { j + 1 : j \in WindowOffsets(k, n) }
            /\ pc \in {"chunk", "done"} =>
                  /\ UNION { WindowOffsets(k, n) : k \in 0..(Len(section_chunks) - 1) }
                        = 0..(n - 1)
                  /\ \A i \in 1..n : \E k \in 1..Len(section_chunks) :
                        \E m \in 1..Len(section_chunks[k].text) :
                            section_chunks[k].text[m] = words[i]

C25_Witness ==
    /\ pc = "done"
    /\ Len(words) = 6
    /\ chunk_size = 3
    /\ chunk_overlap = 1
    /\ Len(section_chunks) = 3
    /\ section_chunks[2].text = <<"w1", "w2", "w3">>
    /\ chunks = AddIndices(section_chunks, document["url"])

\* the collection was created by this run
CreatedByRun == Done(store_ops, "create_collection")

\* C26: get_embedding_dimension gives 384 for a model name that contains
\* "light-v3.0" and 1024 for the other names that contain "v3.0", so the
\* collection a run creates has the size of the vectors its model produces.
C26_DimensionMatchesModel ==
    CreatedByRun =>
        /\ Contains(model, LightV3) => collection_dim = 384
        /\ (Contains(model, V3) /\ ~Contains(model, LightV3)) => collection_dim = 1024
        /\ collection_dim = ModelDimension(model)

\* the positions of the chunks whose batch was embedded
EmbeddedPositions ==
    { i \in 1..Len(in_chunks) : embed_calls[((i - 1) \div embed_batch_size) + 1].ok }

\* the number of chunks of the batches that failed
FailedBatchSizes(calls) ==
    Cardinality({ <<k, n>> \in (1..Len(calls)) \X (1..MaxChunks + 1) :
                    ~calls[k].ok /\ n <= Len(calls[k].texts) })

\* no chunk has kept an embedding it was given before the call
NoEarlierEmbedding ==
    \A i \in 1..Len(in_chunks) : PyGet(in_chunks[i], "embedding", None) # OldVec

\* C27: for chunks that come without an embedding, and a service that gives
\* one vector per text, embed_chunks returns the chunks of the batches whose
\* call succeeded, in the order of the input, each with the embedding of its
\* text: a batch is returned whole or dropped whole, and the number of chunks
\* dropped is the total size of the failed batches.
C27_WholeBatches ==
    (ipc \in {"embedded", "stopped", "insert", "upload", "inserted"}
     /\ embed_calls # <<>> /\ NoEarlierEmbedding) =>
        LET kept == Ascending(EmbeddedPositions)
        IN  /\ Len(valid_chunks) = Cardinality(EmbeddedPositions)
            /\ \A k \in 1..Len(valid_chunks) :
                  /\ valid_chunks[k] = in_chunks[kept[k]]
                  /\ valid_chunks[k]["embedding"] = Vec(valid_chunks[k]["text"])
                  /\ valid_chunks[k]["chunk_id"] = PageChunks(Len(in_chunks))[kept[k]]["chunk_id"]
            /\ \A c \in 1..Len(embed_calls) :
                  LET members == { i \in 1..Len(in_chunks) :
                                     ((i - 1) \div embed_batch_size) + 1 = c }
                  IN  \/ members \subseteq EmbeddedPositions
                      \/ members \cap EmbeddedPositions = {}
            /\ Len(in_chunks) - Len(valid_chunks) = FailedBatchSizes(embed_calls)

C27_Witness ==
    /\ ipc = "embedded"
    /\ NoEarlierEmbedding
    /\ Len(in_chunks) = 3
    /\ embed_batch_size = 2
    /\ Len(embed_calls) = 2
    /\ ~embed_calls[1].ok
    /\ embed_calls[2].ok
    /\ Len(valid_chunks) = 1
    /\ valid_chunks[1]["chunk_index"] = 2

\* the urls of the documents crawled so far: those of the paths done, then
\* those of the path in progress
CrawledUrls == [k \in 1..Len(all_pages \o pages) |-> (all_pages \o pages)[k].url]

\* the requests extract_page_content sent for the page at url
PageFetches(url) ==
    SelectSeq(fetches, LAMBDA f : f.for = "page" /\ f.url = url)

\* the requests sent so far, whatever their order
SentFetches == { fetches[k] : k \in 1..Len(fetches) }

\* the start page of the path in progress
StartUrl == SiteUrl(docs_paths[path_no + 1])

\* C28: over the paths crawl_all_docs goes through on one crawler, no two
\* documents crawled have the same url; visited_urls holds exactly the urls
\* whose page was fetched with success, a success is the last fetch of its
\* url (a failure leaves the url to be fetched again), and every document is
\* that of a visited url; linked pages are extracted only while the start
\* page of the path is the first document of the path
C28_OneDocumentPerUrl ==
    /\ \A i, j \in 1..Len(CrawledUrls) : CrawledUrls[i] = CrawledUrls[j] => i = j
    /\ visited_urls = { f.url : f \in { g \in SentFetches :
                                          g.for = "page" /\ g.outcome # "failed" } }
    /\ \A f \in SentFetches :
          f.for = "page" =>
             \A k \in 1..Len(PageFetches(f.url)) :
                PageFetches(f.url)[k].outcome # "failed" => k = Len(PageFetches(f.url))
    /\ \A k \in 1..Len(CrawledUrls) : CrawledUrls[k] \in visited_urls
    /\ (cpc = "links" \/ link_queue # {}) =>
          /\ pages # <<>>
          /\ pages[1].url = StartUrl
          /\ \E k \in 1..Len(fetches) :
                fetches[k] = [url |-> StartUrl, for |-> "page", outcome |-> "page"]

\* crawl_all_docs has returned two documents; a page whose first fetch failed
\* was fetched again, with success; the same path was given twice
C28_Witness ==
    /\ cpc = "done"
    /\ Len(all_pages) >= 2
    /\ \E f \in SentFetches :
          /\ Len(PageFetches(f.url)) = 2
          /\ PageFetches(f.url)[1].outcome = "failed"
          /\ PageFetches(f.url)[2].outcome = "page"
    /\ Len(docs_paths) = 2
    /\ docs_paths[1] = docs_paths[2]

\* the agent constructed last when the search s was made
LatestAgent(s) == agents[s.constructed]

====
